---- MODULE Spec2Model ----
(***************************************************************************)
(* Model of the scoring core of logan-501: the two-player 501 match state  *)
(* machine of backend/app/scoring/game.py (submit_visit, undo, reset) as   *)
(* it is served by the single shared game instance of scoring/store.py,    *)
(* the checkout solver of scoring/checkout.py, the dartboard geometry of   *)
(* scoring/dartboard.py and the stats aggregator of scoring/stats.py.      *)
(***************************************************************************)
EXTENDS Integers, Sequences, FiniteSets, TLC

VARIABLES
    config,      \* Game501MatchTwoPlayer._config
    state,       \* Game501MatchTwoPlayer._state (a MatchState value)
    undo_stack,  \* Game501MatchTwoPlayer._undo_stack
    lastOp,      \* the operation of the last call: "init", "submit", "undo", "reset"
    lastResult,  \* its outcome: "ok" or the error it raised
    threads,     \* the request threads inside submit_visit (SpecConc only)
    sc_args,     \* the arguments of the last suggest_checkouts call
    sc_result,   \* what that call returned or raised
    sc_earlier,  \* what an earlier call with the same arguments returned
    calib,       \* the DartboardCalibration passed to score_dart_pixel
    point,       \* the pixel <<x, y>> passed to score_dart_pixel
    dart_score,  \* the DartScore it returned
    sd_points,   \* the pixels <<x, y>> passed to score_darts
    sd_result,   \* the <<scored, total>> it returned
    match_stats, \* the MatchStats last computed from the match state
    cal_args,    \* the numbers a DartboardCalibration is constructed from
    cal_made,    \* what the construction returned or raised
    cal_point,   \* the pixel <<x, y>> scored under the constructed calibration
    cal_scored,  \* the ring score_dart_pixel returned, or the error it raised
    cameras,     \* InMemoryCameraStore._cameras
    latest_frames, \* InMemoryCameraStore._latest_frames
    issued,      \* the camera ids uuid4 has returned
    requests,    \* the requests inside upload_latest_frame and latest_jpeg
    response,    \* the response of the last finished camera request
    last_upload, \* per camera, the bytes of the last upload answered with ok
    sv_darts     \* the darts of a visit submitted to a match of 501

\* The variables of the match and of its request threads.
gameVars == <<config, state, undo_stack, lastOp, lastResult, threads>>

\* The variables of the checkout solver.
solverVars == <<sc_args, sc_result, sc_earlier>>

\* The variables of the functions the match does not call.
\* The variables of the dartboard geometry.
boardVars == <<calib, point, dart_score, sd_points, sd_result>>

\* The variables of the stats aggregator.
statsVars == <<match_stats>>

\* The variables of the construction of a calibration.
ctorVars == <<cal_args, cal_made, cal_point, cal_scored>>

\* The variables of the camera store and of its routes.
cameraVars == <<cameras, latest_frames, issued, requests, response, last_upload>>

\* The variable of the single visit.
visitVars == <<sv_darts>>

fnVars == <<solverVars, boardVars, statsVars, ctorVars, cameraVars, visitVars>>

vars == <<gameVars, fnVars>>

(***************************************************************************)
(* Bounds of the model.                                                    *)
(***************************************************************************)
MaxStart == 3   \* starting_score ranges over 1..MaxStart
MaxLegs == 2    \* the largest legs_to_win_set
MaxSets == 2    \* the largest sets_to_win_match
MaxHist == 3    \* visits accepted into one history
MaxRemaining == 60     \* suggest_checkouts is called on remaining 1..MaxRemaining
MaxLimit == 6          \* the largest limit passed to suggest_checkouts
MaxRotation == 30      \* rotation_deg ranges over -MaxRotation..MaxRotation
MaxRadius == 1         \* radius_px ranges over 1000, .., 1000 * MaxRadius
StatsStart == 200      \* starting_score of the matches the stats are taken of
MaxStatsVisits == 4    \* visits accepted into the history of such a match
MaxPlay == 9           \* visits accepted into the history of a match played to its end
MaxCameras == 2        \* cameras created in a run of the camera store

(***************************************************************************)
(* Values.                                                                 *)
(***************************************************************************)
None == 0       \* Python None for an optional player id

Dart(v, m) == [value |-> v, multiplier |-> m]

\* Mutant: the bull can be a triple.
DartValid_TripleBull(d) ==
    /\ d.multiplier \in {0, 1, 2, 3}
    /\ IF d.multiplier = 0
       THEN d.value = 0
       ELSE d.value \in (1..20) \cup {25}

\* Dart.__post_init__: TRUE iff construction does not raise.
DartValid(d) ==
    /\ d.multiplier \in {0, 1, 2, 3}
    /\ IF d.multiplier = 0
       THEN d.value = 0
       ELSE /\ d.value \in (1..20) \cup {25}
            /\ ~(d.value = 25 /\ d.multiplier = 3)

score(d) == d.value * d.multiplier

is_double(d) == d.multiplier = 2 /\ d.value \in (1..20) \cup {25}

MatchConfig(s, d, l, m) ==
    [starting_score |-> s, double_out |-> d,
     legs_to_win_set |-> l, sets_to_win_match |-> m]

\* MatchConfig.__post_init__: TRUE iff construction does not raise.
MatchConfigValid(c) ==
    /\ ~(c.starting_score <= 0)
    /\ ~(c.legs_to_win_set <= 0)
    /\ ~(c.sets_to_win_match <= 0)

PlayerMatchState(id, rem, legs, sets) ==
    [player_id |-> id, remaining |-> rem, legs_won |-> legs, sets_won |-> sets]

VisitResult(p, dl, t, b, c, rb, ra) ==
    [player_id |-> p, darts |-> dl, total |-> t, bust |-> b, checkout |-> c,
     remaining_before |-> rb, remaining_after |-> ra]

\* MatchState.last_visit = None
NoVisit == VisitResult(None, <<>>, 0, FALSE, FALSE, 0, 0)

\* Mutant: the finished-match check is lost.
is_over_Never(st) == FALSE

is_over(st) == st.winner_player_id # None

other_player_id(p) == IF p = 1 THEN 2 ELSE 1

get_player(players, p) == IF p = 1 THEN players[1] ELSE players[2]

replace_player(players, updated) ==
    IF updated.player_id = 1
    THEN <<updated, players[2]>>
    ELSE <<players[1], updated>>

\* The MatchState built by Game501MatchTwoPlayer.__init__.
InitState(c) ==
    [config |-> c,
     players |-> <<PlayerMatchState(1, c.starting_score, 0, 0),
                   PlayerMatchState(2, c.starting_score, 0, 0)>>,
     active_player_id |-> 1,
     leg_starter_player_id |-> 1,
     set_number |-> 1,
     leg_number_in_set |-> 1,
     winner_player_id |-> None,
     last_leg_winner_player_id |-> None,
     last_set_winner_player_id |-> None,
     last_visit |-> NoVisit,
     history |-> <<>>]

(***************************************************************************)
(* submit_visit, as pure operators over the MatchState it read.            *)
(***************************************************************************)
RECURSIVE SumScores(_, _)
\* sum(d.score for d in dart_list[:n])
SumScores(dl, n) == IF n = 0 THEN 0 ELSE SumScores(dl, n - 1) + score(dl[n])

\* Mutant: a visit without darts is recorded as two misses.
Normalize_TwoMisses(darts) ==
    IF Len(darts) = 0 THEN <<Dart(0, 0), Dart(0, 0)>> ELSE darts

\* len(dart_list) == 0  ->  (Dart(0, 0),)
Normalize(darts) == IF Len(darts) = 0 THEN <<Dart(0, 0)>> ELSE darts

\* Mutant: only a double that reaches remaining_before ends the visit.
DartsAfterCheckout_OnDouble(dl, remaining_before) ==
    \E i \in 1..Len(dl) :
        SumScores(dl, i) = remaining_before /\ i # Len(dl) /\ is_double(dl[i])

\* The running-sum loop: some dart before the last one reaches remaining_before.
DartsAfterCheckout(dl, remaining_before) ==
    \E i \in 1..Len(dl) :
        SumScores(dl, i) = remaining_before /\ i # Len(dl)

\* The checks of submit_visit in the order the code makes them.
RejectReason(st, darts, player_id) ==
    IF is_over(st) THEN "ALREADY_OVER"
    ELSE IF player_id # None /\ player_id # st.active_player_id THEN "NOT_YOUR_TURN"
    ELSE LET dl == Normalize(darts) IN
         IF Len(dl) > 3 THEN "TOO_MANY_DARTS"
         ELSE IF \E i \in 1..Len(dl) : ~DartValid(dl[i]) THEN "INVALID_DART"
         ELSE IF SumScores(dl, Len(dl)) < 0 \/ SumScores(dl, Len(dl)) > 180
              THEN "VISIT_TOTAL_OUT_OF_RANGE"
         ELSE IF DartsAfterCheckout(dl,
                     get_player(st.players, st.active_player_id).remaining)
              THEN "DARTS_AFTER_CHECKOUT"
         ELSE "ok"

\* Mutant: a bust records the proposed remaining instead of reverting.
Classify_NoRevert(remaining_before, total, last_dart, double_out) ==
    LET proposed_remaining == remaining_before - total IN
    IF proposed_remaining < 0
    THEN [bust |-> TRUE, checkout |-> FALSE, remaining_after |-> proposed_remaining]
    ELSE IF double_out /\ proposed_remaining = 1
    THEN [bust |-> TRUE, checkout |-> FALSE, remaining_after |-> proposed_remaining]
    ELSE IF proposed_remaining = 0
    THEN IF double_out /\ ~is_double(last_dart)
         THEN [bust |-> TRUE, checkout |-> FALSE, remaining_after |-> proposed_remaining]
         ELSE [bust |-> FALSE, checkout |-> TRUE, remaining_after |-> 0]
    ELSE [bust |-> FALSE, checkout |-> FALSE, remaining_after |-> proposed_remaining]

\* Mutant: the double-out test on the last dart is lost.
Classify_AnyFinish(remaining_before, total, last_dart, double_out) ==
    LET proposed_remaining == remaining_before - total IN
    IF proposed_remaining < 0
    THEN [bust |-> TRUE, checkout |-> FALSE, remaining_after |-> remaining_before]
    ELSE IF double_out /\ proposed_remaining = 1
    THEN [bust |-> TRUE, checkout |-> FALSE, remaining_after |-> remaining_before]
    ELSE IF proposed_remaining = 0
    THEN [bust |-> FALSE, checkout |-> TRUE, remaining_after |-> 0]
    ELSE [bust |-> FALSE, checkout |-> FALSE, remaining_after |-> proposed_remaining]

\* Mutant: leaving 1 under double-out is not a bust.
Classify_LeaveOne(remaining_before, total, last_dart, double_out) ==
    LET proposed_remaining == remaining_before - total IN
    IF proposed_remaining < 0
    THEN [bust |-> TRUE, checkout |-> FALSE, remaining_after |-> remaining_before]
    ELSE IF proposed_remaining = 0
    THEN IF double_out /\ ~is_double(last_dart)
         THEN [bust |-> TRUE, checkout |-> FALSE, remaining_after |-> remaining_before]
         ELSE [bust |-> FALSE, checkout |-> TRUE, remaining_after |-> 0]
    ELSE [bust |-> FALSE, checkout |-> FALSE, remaining_after |-> proposed_remaining]

\* Mutant: under double_out a finish on the bull is not taken for a double.
Classify_BullNoDouble(remaining_before, total, last_dart, double_out) ==
    LET proposed_remaining == remaining_before - total IN
    IF proposed_remaining < 0
    THEN [bust |-> TRUE, checkout |-> FALSE, remaining_after |-> remaining_before]
    ELSE IF double_out /\ proposed_remaining = 1
    THEN [bust |-> TRUE, checkout |-> FALSE, remaining_after |-> remaining_before]
    ELSE IF proposed_remaining = 0
    THEN IF double_out /\ ~(is_double(last_dart) /\ last_dart.value # 25)
         THEN [bust |-> TRUE, checkout |-> FALSE,
               remaining_after |-> remaining_before]
         ELSE [bust |-> FALSE, checkout |-> TRUE, remaining_after |-> 0]
    ELSE [bust |-> FALSE, checkout |-> FALSE, remaining_after |-> proposed_remaining]

\* bust / checkout / remaining_after of a visit (the if-chain on proposed_remaining).
Classify(remaining_before, total, last_dart, double_out) ==
    LET proposed_remaining == remaining_before - total IN
    IF proposed_remaining < 0
    THEN [bust |-> TRUE, checkout |-> FALSE, remaining_after |-> remaining_before]
    ELSE IF double_out /\ proposed_remaining = 1
    THEN [bust |-> TRUE, checkout |-> FALSE, remaining_after |-> remaining_before]
    ELSE IF proposed_remaining = 0
    THEN IF double_out
         THEN IF ~is_double(last_dart)
              THEN [bust |-> TRUE, checkout |-> FALSE,
                    remaining_after |-> remaining_before]
              ELSE [bust |-> FALSE, checkout |-> TRUE, remaining_after |-> 0]
         ELSE [bust |-> FALSE, checkout |-> TRUE, remaining_after |-> 0]
    ELSE [bust |-> FALSE, checkout |-> FALSE, remaining_after |-> proposed_remaining]

\* The VisitResult of an accepted submission.
MakeVisit(st, darts) ==
    LET dl == Normalize(darts)
        active_id == st.active_player_id
        remaining_before == get_player(st.players, active_id).remaining
        total == SumScores(dl, Len(dl))
        c == Classify(remaining_before, total, dl[Len(dl)], st.config.double_out)
    IN VisitResult(active_id, dl, total, c.bust, c.checkout,
                   remaining_before, c.remaining_after)

\* Mutant: the thrower's remaining is not updated.
ScoreUpdate_NoScore(active, visit) ==
    PlayerMatchState(active.player_id, active.remaining,
                     active.legs_won, active.sets_won)

\* new_active: the thrower after the score update (or revert on bust).
ScoreUpdate(active, visit) ==
    PlayerMatchState(active.player_id,
                     IF ~visit.bust THEN visit.remaining_after
                                    ELSE visit.remaining_before,
                     active.legs_won, active.sets_won)

\* Mutant: the set is won one leg late.
SetWon_Late(winner_player, c) == winner_player.legs_won > c.legs_to_win_set

\* set_won = winner_player.legs_won >= legs_to_win_set
SetWon(winner_player, c) == winner_player.legs_won >= c.legs_to_win_set

\* Mutant: the match needs one set more than sets_to_win_match.
MatchWon_Strict(winner_player, c) == winner_player.sets_won > c.sets_to_win_match

\* match_won = winner_player.sets_won >= sets_to_win_match
MatchWon(winner_player, c) == winner_player.sets_won >= c.sets_to_win_match

\* Mutant: the new set keeps the legs won.
StartNextSet_KeepLegs(players, c) ==
    <<PlayerMatchState(1, c.starting_score, get_player(players, 1).legs_won,
                       get_player(players, 1).sets_won),
      PlayerMatchState(2, c.starting_score, get_player(players, 2).legs_won,
                       get_player(players, 2).sets_won)>>

\* "Start next set (legs reset)".
StartNextSet(players, c) ==
    <<PlayerMatchState(1, c.starting_score, 0, get_player(players, 1).sets_won),
      PlayerMatchState(2, c.starting_score, 0, get_player(players, 2).sets_won)>>

\* Mutant: the new leg starts on the scores the last one ended on.
StartNextLeg_KeepRemaining(players, c) == players

\* "Reset remaining for new leg while keeping legs/sets".
StartNextLeg(players, c) ==
    <<PlayerMatchState(1, c.starting_score, get_player(players, 1).legs_won,
                       get_player(players, 1).sets_won),
      PlayerMatchState(2, c.starting_score, get_player(players, 2).legs_won,
                       get_player(players, 2).sets_won)>>

\* Mutant: the turn passes even when the match is won.
NewActive_NoFreeze(st, next_active_player_id, winner_player_id) ==
    next_active_player_id

\* active_player_id of the new MatchState.
NewActive(st, next_active_player_id, winner_player_id) ==
    IF winner_player_id = None THEN next_active_player_id ELSE st.active_player_id

\* Mutant: a checkout starts the next leg and the leg is not counted.
AfterCheckout_LegNotCounted(st, players_after_score) ==
    [players |-> StartNextLeg(players_after_score, st.config),
     next_active_player_id |-> other_player_id(st.leg_starter_player_id),
     leg_starter_player_id |-> other_player_id(st.leg_starter_player_id),
     set_number |-> st.set_number,
     leg_number_in_set |-> st.leg_number_in_set + 1,
     winner_player_id |-> st.winner_player_id,
     last_leg_winner_player_id |-> st.active_player_id,
     last_set_winner_player_id |-> st.last_set_winner_player_id]

\* The locals of submit_visit after the "if checkout:" block.
AfterCheckout(st, players_after_score) ==
    LET active_id == st.active_player_id
        c == st.config
        wp0 == get_player(players_after_score, active_id)
        wp1 == PlayerMatchState(wp0.player_id, wp0.remaining,
                                wp0.legs_won + 1, wp0.sets_won)
        pl1 == replace_player(players_after_score, wp1)
        set_won == SetWon(wp1, c)
        wp2 == IF set_won
               THEN PlayerMatchState(wp1.player_id, wp1.remaining,
                                     wp1.legs_won, wp1.sets_won + 1)
               ELSE wp1
        pl2 == IF set_won THEN replace_player(pl1, wp2) ELSE pl1
        match_won == set_won /\ MatchWon(wp2, c)
        new_set == set_won /\ ~match_won
        winner == IF match_won THEN active_id ELSE st.winner_player_id
        pl3 == IF new_set THEN StartNextSet(pl2, c) ELSE pl2
        new_leg == winner = None
    IN [players |-> IF new_leg THEN StartNextLeg(pl3, c) ELSE pl3,
        next_active_player_id |->
            IF new_leg THEN other_player_id(st.leg_starter_player_id)
                       ELSE other_player_id(active_id),
        leg_starter_player_id |->
            IF new_leg THEN other_player_id(st.leg_starter_player_id)
                       ELSE st.leg_starter_player_id,
        set_number |-> IF new_set THEN st.set_number + 1 ELSE st.set_number,
        leg_number_in_set |->
            IF new_set THEN 1
            ELSE IF new_leg /\ ~set_won THEN st.leg_number_in_set + 1
            ELSE st.leg_number_in_set,
        winner_player_id |-> winner,
        last_leg_winner_player_id |-> active_id,
        last_set_winner_player_id |->
            IF set_won THEN active_id ELSE st.last_set_winner_player_id]

\* Mutant: the turn does not pass after a visit that is no checkout.
NoCheckout_KeepTurn(st, players_after_score) ==
    [players |-> players_after_score,
     next_active_player_id |-> st.active_player_id,
     leg_starter_player_id |-> st.leg_starter_player_id,
     set_number |-> st.set_number,
     leg_number_in_set |-> st.leg_number_in_set,
     winner_player_id |-> st.winner_player_id,
     last_leg_winner_player_id |-> st.last_leg_winner_player_id,
     last_set_winner_player_id |-> st.last_set_winner_player_id]

\* The locals of submit_visit when the visit is no checkout.
NoCheckout(st, players_after_score) ==
    [players |-> players_after_score,
     next_active_player_id |-> other_player_id(st.active_player_id),
     leg_starter_player_id |-> st.leg_starter_player_id,
     set_number |-> st.set_number,
     leg_number_in_set |-> st.leg_number_in_set,
     winner_player_id |-> st.winner_player_id,
     last_leg_winner_player_id |-> st.last_leg_winner_player_id,
     last_set_winner_player_id |-> st.last_set_winner_player_id]

\* The MatchState submit_visit installs for an accepted visit.
ApplyVisit(st, visit) ==
    LET active == get_player(st.players, st.active_player_id)
        players_after_score == replace_player(st.players, ScoreUpdate(active, visit))
        l == IF visit.checkout THEN AfterCheckout(st, players_after_score)
                               ELSE NoCheckout(st, players_after_score)
    IN [config |-> st.config,
        players |-> l.players,
        active_player_id |-> NewActive(st, l.next_active_player_id, l.winner_player_id),
        leg_starter_player_id |-> l.leg_starter_player_id,
        set_number |-> l.set_number,
        leg_number_in_set |-> l.leg_number_in_set,
        winner_player_id |-> l.winner_player_id,
        last_leg_winner_player_id |-> l.last_leg_winner_player_id,
        last_set_winner_player_id |-> l.last_set_winner_player_id,
        last_visit |-> visit,
        history |-> Append(st.history, visit)]

\* self._undo_stack.append(state)
UndoPush(stack, st) == Append(stack, st)

\* Mutant: the snapshot is taken after the new state is built.
SubmitVisit_PushNew(st, stack, darts, player_id) ==
    LET err == RejectReason(st, darts, player_id) IN
    IF err # "ok"
    THEN [state |-> st, stack |-> stack, result |-> err]
    ELSE [state |-> ApplyVisit(st, MakeVisit(st, darts)),
          stack |-> UndoPush(stack, ApplyVisit(st, MakeVisit(st, darts))),
          result |-> "ok"]

\* Mutant: the snapshot is pushed before the running-sum check.
SubmitVisit_PushEarly(st, stack, darts, player_id) ==
    LET err == RejectReason(st, darts, player_id) IN
    IF err = "DARTS_AFTER_CHECKOUT"
    THEN [state |-> st, stack |-> UndoPush(stack, st), result |-> err]
    ELSE IF err # "ok"
    THEN [state |-> st, stack |-> stack, result |-> err]
    ELSE [state |-> ApplyVisit(st, MakeVisit(st, darts)),
          stack |-> UndoPush(stack, st),
          result |-> "ok"]

\* One whole call of submit_visit on (self._state, self._undo_stack).
SubmitVisit(st, stack, darts, player_id) ==
    LET err == RejectReason(st, darts, player_id) IN
    IF err # "ok"
    THEN [state |-> st, stack |-> stack, result |-> err]
    ELSE [state |-> ApplyVisit(st, MakeVisit(st, darts)),
          stack |-> UndoPush(stack, st),
          result |-> "ok"]

\* _dto_to_darts of main.py: the error it raises, or "ok". A DartDTO outside
\* value 0..25, multiplier 0..3 is refused before it, with the same status.
dto_to_darts_error(darts) ==
    IF Len(darts) > 3 THEN "TOO_MANY_DARTS"
    ELSE IF \E i \in 1..Len(darts) : ~DartValid(darts[i]) THEN "INVALID_DART"
    ELSE "ok"

\* POST /game/visit: _dto_to_darts, then submit_visit of the match.
post_game_visit(st, stack, darts, player_id) ==
    LET err == dto_to_darts_error(darts) IN
    IF err # "ok"
    THEN [state |-> st, stack |-> stack, result |-> err]
    ELSE SubmitVisit(st, stack, darts, player_id)

\* Mutant: undo restores the snapshot and leaves it on the stack.
UndoCall_KeepSnapshot(st, stack) ==
    IF Len(stack) = 0
    THEN [state |-> st, stack |-> stack, result |-> "NOTHING_TO_UNDO"]
    ELSE [state |-> stack[Len(stack)], stack |-> stack, result |-> "ok"]

\* One whole call of undo.
UndoCall(st, stack) ==
    IF Len(stack) = 0
    THEN [state |-> st, stack |-> stack, result |-> "NOTHING_TO_UNDO"]
    ELSE [state |-> stack[Len(stack)],
          stack |-> SubSeq(stack, 1, Len(stack) - 1),
          result |-> "ok"]

\* Mutant: a config passed to reset is used for that reset only.
ResetCall_ForgetConfig(cfg, cin) ==
    [config |-> cfg,
     state |-> InitState(IF Len(cin) = 1 THEN cin[1] ELSE cfg),
     stack |-> <<>>]

\* One whole call of reset: cin is <<>> for reset(config=None) and <<c>> for
\* reset(config=c); cfg is self._config before the call.
ResetCall(cfg, cin) ==
    LET effective == IF Len(cin) = 1 THEN cin[1] ELSE cfg IN
    [config |-> effective, state |-> InitState(effective), stack |-> <<>>]

(***************************************************************************)
(* The checkout solver of scoring/checkout.py.                             *)
(***************************************************************************)
\* _format_dart
format_dart(d) ==
    IF d.multiplier = 0 THEN "MISS"
    ELSE IF d.value = 25 /\ d.multiplier = 1 THEN "SBULL"
    ELSE IF d.value = 25 /\ d.multiplier = 2 THEN "DBULL"
    ELSE (CASE d.multiplier = 1 -> "S"
            [] d.multiplier = 2 -> "D"
            [] d.multiplier = 3 -> "T") \o ToString(d.value)

RECURSIVE FormatRoute(_)
\* ",".join(_format_dart(d) for d in route)
FormatRoute(route) ==
    IF Len(route) = 1
    THEN format_dart(route[1])
    ELSE FormatRoute(SubSeq(route, 1, Len(route) - 1))
             \o "," \o format_dart(route[Len(route)])

\* ALL_DARTS = _all_scoring_darts(): the 62 darts the loops run over.
ALL_DARTS ==
    {Dart(v, m) : v \in 1..20, m \in 1..3} \cup {Dart(25, 1), Dart(25, 2)}

\* Mutant: every dart is a valid finish.
is_valid_finish_Any(last, double_out) == TRUE

\* Mutant: the finish must be a double under either rule.
is_valid_finish_Double(last, double_out) == is_double(last)

\* _is_valid_finish
is_valid_finish(last, double_out) == (~double_out) \/ is_double(last)

\* common = [20, 16, 18, 10, 8, 12, 6, 4, 2]
common == <<20, 16, 18, 10, 8, 12, 6, 4, 2>>

\* common.index(v)
CommonIndex(v) == (CHOOSE i \in 1..Len(common) : common[i] = v) - 1

\* _dart_preference_weight: lower is better.
dart_preference_weight(d) ==
    IF d.value = 25
    THEN (IF d.multiplier = 1 THEN 60 ELSE 30)
    ELSE IF d.multiplier = 2
    THEN (IF \E i \in 1..Len(common) : common[i] = d.value
          THEN 0 + CommonIndex(d.value)
          ELSE 15 + (20 - d.value))
    ELSE IF d.multiplier = 3
    THEN (IF d.value \in {20, 19, 18, 17, 16}
          THEN 5 + (20 - d.value)
          ELSE 25 + (20 - d.value))
    ELSE 40 + (20 - d.value)

RECURSIVE SumWeights(_, _)
\* sum(_dart_preference_weight(d) for d in route[:n])
SumWeights(route, n) ==
    IF n = 0 THEN 0
    ELSE SumWeights(route, n - 1) + dart_preference_weight(route[n])

\* Mutant: the number of darts is not part of the sort key.
route_weight_NoLen(route) ==
    <<0, dart_preference_weight(route[Len(route)]),
      SumWeights(route, Len(route) - 1)>>

\* _route_weight without its last component: (len(route), finish_weight,
\* setup_weight).  The last component, hash(formatted) & 0xFFFF, is a str
\* hash: fixed within one process run and salted anew for each run.
route_weight(route) ==
    <<Len(route), dart_preference_weight(route[Len(route)]),
      SumWeights(route, Len(route) - 1)>>

\* Mutant: the setup darts are not part of the sort key.
Rank_NoSetup(w) == w[1] * 100000 + w[2] * 1000

\* The place of a (len, finish_weight, setup_weight) key in tuple order:
\* finish_weight <= 60 and setup_weight <= 120.
Rank(w) == w[1] * 100000 + w[2] * 1000 + w[3]

\* The darts d of ALL_DARTS with d.score == s, tabulated by s (a dart scores
\* at most 60).
DartsScoring == [s \in 1..60 |-> {d \in ALL_DARTS : score(d) = s}]

\* The darts d the innermost loop appends for:
\* d.score == r and _is_valid_finish(d, double_out=double_out)
Finishers(r, double_out) ==
    IF r \in 1..60
    THEN {d \in DartsScoring[r] : is_valid_finish(d, double_out)}
    ELSE {}

\* The 1 dart routes.
Routes1(remaining, double_out) ==
    {<<d1>> : d1 \in Finishers(remaining, double_out)}

\* The 2 dart routes.
Routes2(remaining, double_out) ==
    UNION {{<<d1, d2>> : d2 \in Finishers(remaining - score(d1), double_out)} :
           d1 \in {d \in ALL_DARTS : ~(remaining - score(d) <= 0)}}

\* The 3 dart routes.
Routes3(remaining, double_out) ==
    UNION {UNION {{<<d1, d2, d3>> :
                      d3 \in Finishers(remaining - score(d1) - score(d2),
                                       double_out)} :
                  d2 \in {d \in ALL_DARTS :
                       ~(remaining - score(d1) - score(d) <= 0)}} :
           d1 \in {d \in ALL_DARTS : ~(remaining - score(d) <= 0)}}

\* Mutant: the 2 dart loop is lost.
Candidates_NoTwoDart(remaining, double_out, max_darts) ==
    (IF max_darts >= 1 THEN Routes1(remaining, double_out) ELSE {})
    \cup (IF max_darts >= 3 THEN Routes3(remaining, double_out) ELSE {})

\* The list `suggestions` before it is sorted, as the set of its routes
\* (the loops append every route once).
Candidates(remaining, double_out, max_darts) ==
    (IF max_darts >= 1 THEN Routes1(remaining, double_out) ELSE {})
    \cup (IF max_darts >= 2 THEN Routes2(remaining, double_out) ELSE {})
    \cup (IF max_darts >= 3 THEN Routes3(remaining, double_out) ELSE {})

RECURSIVE Take(_, _, _)
\* suggestions.sort(key=_route_weight) and the loop that walks the sorted
\* list, skips the strings already seen and stops at `limit`: the set of the
\* lists it can build.  keyed holds <<Rank(route_weight(r)), r>> for the
\* routes not yet walked.  Routes of equal (len, finish, setup) are ordered by
\* the masked str hash, which can order them any way.
Take(keyed, seen, limit) ==
    IF keyed = {} \/ limit <= 0
    THEN {<<>>}
    ELSE LET ranks == {k[1] : k \in keyed}
             best == CHOOSE m \in ranks : \A n \in ranks : m <= n
             first == {k \in keyed : k[1] = best}
         IN UNION {IF FormatRoute(k[2]) \in seen
                   THEN Take(keyed \ {k}, seen, limit)
                   ELSE {<<k[2]>> \o rest :
                            rest \in Take(keyed \ {k},
                                          seen \cup {FormatRoute(k[2])},
                                          limit - 1)} :
                   k \in first}

\* What a call returns or raises.
Returned(routes) == [raised |-> "none", routes |-> routes]

ValueError == [raised |-> "ValueError", routes |-> <<>>]

\* suggest_checkouts evaluated (not served from the cache): the set of values
\* it can return, one for each way the run's str hash orders the ties.
suggest_checkouts(remaining, double_out, max_darts, limit) ==
    IF remaining <= 0 THEN {Returned(<<>>)}
    ELSE IF max_darts \notin {1, 2, 3} THEN {ValueError}
    ELSE IF limit <= 0 THEN {Returned(<<>>)}
    ELSE IF double_out /\ remaining > 170 THEN {Returned(<<>>)}
    ELSE {Returned(routes) :
            routes \in Take({<<Rank(route_weight(r)), r>> :
                                r \in Candidates(remaining, double_out, max_darts)},
                            {}, limit)}

(***************************************************************************)
(* The dartboard geometry of scoring/dartboard.py.  Pixels and degrees are *)
(* integers; a ring ratio is held in thousandths (0.037 is 37).            *)
(***************************************************************************)
SECTOR_ORDER ==
    <<20, 1, 18, 4, 13, 6, 10, 15, 2, 17, 3, 19, 7, 16, 8, 11, 14, 9, 12, 5>>

DartboardRingRatios(ib, ob, ti, to, di, do) ==
    [inner_bull_r |-> ib, outer_bull_r |-> ob,
     triple_inner_r |-> ti, triple_outer_r |-> to,
     double_inner_r |-> di, double_outer_r |-> do]

\* The defaults of DartboardRingRatios.
DefaultRings == DartboardRingRatios(37, 94, 582, 629, 953, 1000)

\* DartboardRingRatios.__post_init__: TRUE iff construction does not raise.
RingRatiosValid(r) ==
    /\ ~(\E v \in {r.inner_bull_r, r.outer_bull_r, r.triple_inner_r,
                    r.triple_outer_r, r.double_inner_r, r.double_outer_r} :
            v <= 0)
    /\ r.inner_bull_r < r.outer_bull_r
    /\ r.outer_bull_r < r.triple_inner_r
    /\ r.triple_inner_r < r.triple_outer_r
    /\ r.triple_outer_r < r.double_inner_r
    /\ r.double_inner_r <= r.double_outer_r

DartboardCalibration(cx, cy, radius, rotation, rings) ==
    [center_x |-> cx, center_y |-> cy, radius_px |-> radius,
     rotation_deg |-> rotation, rings |-> rings]

\* DartboardCalibration.__post_init__: TRUE iff construction does not raise.
CalibrationValid(c) == ~(c.radius_px <= 0)

\* The DartScore fields that depend on the geometry (x, y and confidence are
\* passed through, radius_ratio is the rr the ring is decided on).
DartScore(value, multiplier, ring, sector, angle) ==
    [value |-> value, multiplier |-> multiplier, score |-> value * multiplier,
     ring |-> ring, sector |-> sector, angle_deg |-> angle]

\* _normalize_angle_deg
normalize_angle_deg(a) ==
    LET m == a % 360 IN IF m < 0 THEN m + 360 ELSE m

\* Mutant: the half sector offset is dropped.
sector_from_angle_deg_NoOffset(angle_from_up_deg) ==
    SECTOR_ORDER[((normalize_angle_deg(angle_from_up_deg) % 360) \div 18) + 1]

\* _sector_from_angle_deg (SECTOR_ORDER is indexed from 0 in the source)
sector_from_angle_deg(angle_from_up_deg) ==
    LET angle == normalize_angle_deg(angle_from_up_deg)
        sector_idx == ((angle + 9) % 360) \div 18
    IN SECTOR_ORDER[sector_idx + 1]

\* math.degrees(math.atan2(y, x)) for a vector on an axis or on a diagonal.
atan2_deg(y, x) ==
    CASE x > 0 /\ y = 0 -> 0
      [] x > 0 /\ y = x -> 45
      [] x = 0 /\ y > 0 -> 90
      [] x < 0 /\ y = -x -> 135
      [] x < 0 /\ y = 0 -> 180
      [] x < 0 /\ y = x -> -135
      [] x = 0 /\ y < 0 -> -90
      [] x > 0 /\ y = -x -> -45
      [] x = 0 /\ y = 0 -> 0

\* ratio * radius_px in pixels, exact for radius_px a multiple of 1000.
RingPx(ratio, radius_px) == (ratio * radius_px) \div 1000

\* rr <= ratio for rr = math.hypot(dx, dy) / radius_px: both sides are
\* multiplied by radius_px > 0 and squared.
RatioLeq(dx, dy, radius_px, ratio) ==
    dx * dx + dy * dy <= RingPx(ratio, radius_px) * RingPx(ratio, radius_px)

\* ratio <= rr
RatioGeq(dx, dy, radius_px, ratio) ==
    dx * dx + dy * dy >= RingPx(ratio, radius_px) * RingPx(ratio, radius_px)

\* Mutant: the outer edge of the single bull is not part of it.
Ring_OpenBull(dx, dy, c) ==
    IF ~RatioLeq(dx, dy, c.radius_px, c.rings.double_outer_r) THEN "miss"
    ELSE IF RatioLeq(dx, dy, c.radius_px, c.rings.inner_bull_r) THEN "dbull"
    ELSE IF ~RatioGeq(dx, dy, c.radius_px, c.rings.outer_bull_r) THEN "bull"
    ELSE IF /\ RatioGeq(dx, dy, c.radius_px, c.rings.double_inner_r)
            /\ RatioLeq(dx, dy, c.radius_px, c.rings.double_outer_r)
    THEN "double"
    ELSE IF /\ RatioGeq(dx, dy, c.radius_px, c.rings.triple_inner_r)
            /\ RatioLeq(dx, dy, c.radius_px, c.rings.triple_outer_r)
    THEN "triple"
    ELSE "single"

\* Mutant: the outer edge of the double ring is a miss.
Ring_MissOnWire(dx, dy, c) ==
    IF RatioGeq(dx, dy, c.radius_px, c.rings.double_outer_r) THEN "miss"
    ELSE IF RatioLeq(dx, dy, c.radius_px, c.rings.inner_bull_r) THEN "dbull"
    ELSE IF RatioLeq(dx, dy, c.radius_px, c.rings.outer_bull_r) THEN "bull"
    ELSE IF /\ RatioGeq(dx, dy, c.radius_px, c.rings.double_inner_r)
            /\ RatioLeq(dx, dy, c.radius_px, c.rings.double_outer_r)
    THEN "double"
    ELSE IF /\ RatioGeq(dx, dy, c.radius_px, c.rings.triple_inner_r)
            /\ RatioLeq(dx, dy, c.radius_px, c.rings.triple_outer_r)
    THEN "triple"
    ELSE "single"

\* The ring score_dart_pixel decides on, in the order of its tests.
Ring(dx, dy, c) ==
    IF ~RatioLeq(dx, dy, c.radius_px, c.rings.double_outer_r) THEN "miss"
    ELSE IF RatioLeq(dx, dy, c.radius_px, c.rings.inner_bull_r) THEN "dbull"
    ELSE IF RatioLeq(dx, dy, c.radius_px, c.rings.outer_bull_r) THEN "bull"
    ELSE IF /\ RatioGeq(dx, dy, c.radius_px, c.rings.double_inner_r)
            /\ RatioLeq(dx, dy, c.radius_px, c.rings.double_outer_r)
    THEN "double"
    ELSE IF /\ RatioGeq(dx, dy, c.radius_px, c.rings.triple_inner_r)
            /\ RatioLeq(dx, dy, c.radius_px, c.rings.triple_outer_r)
    THEN "triple"
    ELSE "single"

\* score_dart_pixel(x=x, y=y, calib=c)
score_dart_pixel(x, y, c) ==
    LET dx == x - c.center_x
        dy == y - c.center_y
        theta == atan2_deg(-dy, dx)
        angle_from_up ==
            normalize_angle_deg(normalize_angle_deg(90 - theta) + c.rotation_deg)
        ring == Ring(dx, dy, c)
        sector == sector_from_angle_deg(angle_from_up)
    IN CASE ring = "miss" -> DartScore(0, 0, "miss", None, angle_from_up)
         [] ring = "dbull" -> DartScore(25, 2, "dbull", None, angle_from_up)
         [] ring = "bull" -> DartScore(25, 1, "bull", None, angle_from_up)
         [] ring = "double" -> DartScore(sector, 2, "double", sector, angle_from_up)
         [] ring = "triple" -> DartScore(sector, 3, "triple", sector, angle_from_up)
         [] ring = "single" -> DartScore(sector, 1, "single", sector, angle_from_up)

RECURSIVE SumDartScores(_, _)
\* sum(d.score for d in scored[:n])
SumDartScores(scored, n) ==
    IF n = 0 THEN 0 ELSE SumDartScores(scored, n - 1) + scored[n].score

\* The list score_darts builds: score_dart_pixel of every item.
ScoredDarts(darts, c) ==
    [i \in 1..Len(darts) |-> score_dart_pixel(darts[i][1], darts[i][2], c)]

\* Mutant: the last dart is left out of the total.
score_darts_DropLast(darts, c) ==
    <<ScoredDarts(darts, c),
      SumDartScores(ScoredDarts(darts, c),
                    IF Len(darts) = 0 THEN 0 ELSE Len(darts) - 1)>>

\* score_darts(darts, calib=c): the pair (scored, total).
score_darts(darts, c) ==
    <<ScoredDarts(darts, c),
      SumDartScores(ScoredDarts(darts, c), Len(darts))>>

(***************************************************************************)
(* The camera store of camera/store.py and its routes. A dict is a         *)
(* function on its keys.                                                   *)
(***************************************************************************)
Camera(camera_id, name, kind, url) ==
    [camera_id |-> camera_id, name |-> name, kind |-> kind, url |-> url]

\* received_at_epoch_s is the clock's and is left out.
StoredFrame(content_type, data) ==
    [content_type |-> IF content_type = "" THEN "application/octet-stream"
                      ELSE content_type,
     data |-> data]

EmptyDict == <<>>

\* d[k] = v
DictSet(d, k, v) == [x \in DOMAIN d \cup {k} |-> IF x = k THEN v ELSE d[x]]

\* d.pop(k, None)
DictPop(d, k) == [x \in DOMAIN d \ {k} |-> d[x]]

\* create_camera: the error it raises, or "none".
create_camera_error(kind, url) ==
    IF kind \notin {"push", "rtsp"} THEN "ValueError"
    ELSE IF kind = "rtsp" /\ url = "" THEN "ValueError"
    ELSE IF kind = "push" /\ url # "" THEN "ValueError"
    ELSE "none"

\* create_camera, camera_id being the str(uuid4()) drawn.
create_camera(cams, camera_id, name, kind, url) ==
    DictSet(cams, camera_id, Camera(camera_id, name, kind, url))

\* Mutant: the frame of a deleted camera is left in the store.
delete_camera_KeepFrame(cams, frames, camera_id) ==
    [existed |-> camera_id \in DOMAIN cams,
     cameras |-> DictPop(cams, camera_id),
     latest_frames |-> frames]

\* delete_camera
delete_camera(cams, frames, camera_id) ==
    [existed |-> camera_id \in DOMAIN cams,
     cameras |-> DictPop(cams, camera_id),
     latest_frames |-> DictPop(frames, camera_id)]

\* Mutant: the frame of a camera is stored once and kept.
set_latest_frame_KeepFirst(cams, frames, camera_id, content_type, data) ==
    IF camera_id \notin DOMAIN cams
    THEN [raised |-> "KeyError", latest_frames |-> frames]
    ELSE [raised |-> "none",
          latest_frames |->
              IF camera_id \in DOMAIN frames THEN frames
              ELSE DictSet(frames, camera_id, StoredFrame(content_type, data))]

\* set_latest_frame
set_latest_frame(cams, frames, camera_id, content_type, data) ==
    IF camera_id \notin DOMAIN cams
    THEN [raised |-> "KeyError", latest_frames |-> frames]
    ELSE [raised |-> "none",
          latest_frames |->
              DictSet(frames, camera_id, StoredFrame(content_type, data))]

\* The response of a camera route: its status and, for the routes that
\* answer with bytes or a camera, its content.
Response(op, camera_id, status, content) ==
    [op |-> op, camera_id |-> camera_id, status |-> status, content |-> content]

\* A request thread outside every handler.
NoRequest == [pc |-> "idle", camera_id |-> 0, content_type |-> "", data |-> ""]

(***************************************************************************)
(* The construction of a calibration from Python floats. A float is a      *)
(* finite number (an integer here), nan or inf; every comparison with nan  *)
(* is False.                                                               *)
(***************************************************************************)
Finite(n) == [kind |-> "finite", n |-> n]

nan == [kind |-> "nan", n |-> 0]

inf == [kind |-> "inf", n |-> 0]

\* a <= b on floats
float_le(a, b) ==
    CASE a.kind = "nan" \/ b.kind = "nan" -> FALSE
      [] b.kind = "inf" -> TRUE
      [] a.kind = "inf" -> FALSE
      [] OTHER -> a.n <= b.n

\* a < b on floats
float_lt(a, b) ==
    CASE a.kind = "nan" \/ b.kind = "nan" -> FALSE
      [] a.kind = "inf" -> FALSE
      [] b.kind = "inf" -> TRUE
      [] OTHER -> a.n < b.n

\* a - b for a finite a and a finite or nan b
float_sub(a, b) ==
    IF a.kind = "nan" \/ b.kind = "nan" THEN nan ELSE Finite(a.n - b.n)

\* a % 360.0: nan for nan and for inf
float_mod360(a) == IF a.kind = "finite" THEN Finite(a.n % 360) ELSE nan

\* DartboardRingRatios.__post_init__ on floats: TRUE iff it raises ValueError.
RingRatiosRaises(r) ==
    \/ \E v \in {r.inner_bull_r, r.outer_bull_r, r.triple_inner_r,
                 r.triple_outer_r, r.double_inner_r, r.double_outer_r} :
          float_le(v, Finite(0))
    \/ ~(/\ float_lt(r.inner_bull_r, r.outer_bull_r)
         /\ float_lt(r.outer_bull_r, r.triple_inner_r)
         /\ float_lt(r.triple_inner_r, r.triple_outer_r)
         /\ float_lt(r.triple_outer_r, r.double_inner_r)
         /\ float_le(r.double_inner_r, r.double_outer_r))

\* DartboardCalibration.__post_init__ on floats: TRUE iff it raises ValueError.
CalibrationRaises(c) == float_le(c.radius_px, Finite(0))

\* What a construction gave: the calibration, or the ValueError raised.
Constructed(c) == [raised |-> "none", calib |-> c]

ConstructionError(c) == [raised |-> "ValueError", calib |-> c]

\* DartboardCalibration(center_x, center_y, radius_px, rotation_deg,
\* rings=DartboardRingRatios(...)): the rings are constructed first.
Construct(c) ==
    IF RingRatiosRaises(c.rings) \/ CalibrationRaises(c)
    THEN ConstructionError(c)
    ELSE Constructed(c)

\* rr <= ratio for rr = math.hypot(dx, dy) / radius_px on floats: rr is nan
\* when dx, dy or radius_px is, and 0 when radius_px is inf.
rr_le(dx, dy, radius_px, ratio) ==
    CASE dx.kind = "nan" \/ dy.kind = "nan" \/ radius_px.kind = "nan" -> FALSE
      [] ratio.kind = "inf" -> TRUE
      [] radius_px.kind = "inf" -> 0 <= ratio.n
      [] OTHER -> RatioLeq(dx.n, dy.n, radius_px.n, ratio.n)

\* ratio <= rr
rr_ge(dx, dy, radius_px, ratio) ==
    CASE dx.kind = "nan" \/ dy.kind = "nan" \/ radius_px.kind = "nan" -> FALSE
      [] ratio.kind = "inf" -> FALSE
      [] radius_px.kind = "inf" -> ratio.n <= 0
      [] OTHER -> RatioGeq(dx.n, dy.n, radius_px.n, ratio.n)

\* rr > ratio
rr_gt(dx, dy, radius_px, ratio) ==
    CASE dx.kind = "nan" \/ dy.kind = "nan" \/ radius_px.kind = "nan" -> FALSE
      [] OTHER -> ~rr_le(dx, dy, radius_px, ratio)

\* score_dart_pixel(x=x, y=y, calib=c) on a calibration of floats: the ring
\* of the DartScore returned, or the ValueError int() raises in
\* _sector_from_angle_deg on an angle that is nan.
score_dart_pixel_float(x, y, c) ==
    LET dx == float_sub(Finite(x), c.center_x)
        dy == float_sub(Finite(y), c.center_y)
        theta == IF dx.kind = "nan" \/ dy.kind = "nan" THEN nan
                 ELSE Finite(atan2_deg(-dy.n, dx.n))
        angle_from_up ==
            IF theta.kind = "nan" \/ c.rotation_deg.kind # "finite" THEN nan
            ELSE float_mod360(Finite(
                     normalize_angle_deg(90 - theta.n) + c.rotation_deg.n))
    IN IF rr_gt(dx, dy, c.radius_px, c.rings.double_outer_r) THEN "miss"
       ELSE IF rr_le(dx, dy, c.radius_px, c.rings.inner_bull_r) THEN "dbull"
       ELSE IF rr_le(dx, dy, c.radius_px, c.rings.outer_bull_r) THEN "bull"
       ELSE IF angle_from_up.kind = "nan" THEN "ValueError"
       ELSE IF /\ rr_ge(dx, dy, c.radius_px, c.rings.double_inner_r)
               /\ rr_le(dx, dy, c.radius_px, c.rings.double_outer_r)
       THEN "double"
       ELSE IF /\ rr_ge(dx, dy, c.radius_px, c.rings.triple_inner_r)
               /\ rr_le(dx, dy, c.radius_px, c.rings.triple_outer_r)
       THEN "triple"
       ELSE "single"

(***************************************************************************)
(* The stats aggregator of scoring/stats.py.                               *)
(***************************************************************************)
PlayerStats(id, nv, nd, pts, nb, nc, na, hv, c180, c140, c100) ==
    [player_id |-> id, visits |-> nv, darts_thrown |-> nd,
     scored_points |-> pts, busts |-> nb, checkouts |-> nc,
     checkout_attempts |-> na, highest_visit |-> hv, count_180 |-> c180,
     count_140_plus |-> c140, count_100_plus |-> c100]

MatchStats(p1, p2) == [player_1 |-> p1, player_2 |-> p2]

\* _is_checkout_attempt
is_checkout_attempt(v, double_out) ==
    IF v.remaining_before <= 1 THEN FALSE
    ELSE IF double_out THEN v.remaining_before <= 170
    ELSE v.remaining_before <= 180

RECURSIVE SumSeq(_)
\* sum(...) over a list of integers
SumSeq(ns) == IF ns = <<>> THEN 0 ELSE Head(ns) + SumSeq(Tail(ns))

\* sum(1 for v in vs if P(v))
CountOf(vs, P(_)) == Cardinality({i \in 1..Len(vs) : P(vs[i])})

\* max(ns) if ns else 0
MaxOrZero(ns) ==
    IF ns = <<>> THEN 0
    ELSE CHOOSE m \in {ns[i] : i \in 1..Len(ns)} :
            \A i \in 1..Len(ns) : m >= ns[i]

\* Mutant: busted visits count like the others.
accumulate_WithBusts(player_id, visits, double_out) ==
    LET v_for_player == SelectSeq(visits, LAMBDA v : v.player_id = player_id)
        totals == [i \in 1..Len(v_for_player) |-> v_for_player[i].total]
    IN PlayerStats(
        player_id,
        Len(v_for_player),
        SumSeq([i \in 1..Len(v_for_player) |-> Len(v_for_player[i].darts)]),
        SumSeq(totals),
        CountOf(v_for_player, LAMBDA v : v.bust),
        CountOf(v_for_player, LAMBDA v : v.checkout),
        CountOf(v_for_player, LAMBDA v : is_checkout_attempt(v, double_out)),
        MaxOrZero(totals),
        CountOf(v_for_player, LAMBDA v : v.total = 180),
        CountOf(v_for_player, LAMBDA v : v.total >= 140),
        CountOf(v_for_player, LAMBDA v : v.total >= 100))

\* _accumulate
accumulate(player_id, visits, double_out) ==
    LET v_for_player == SelectSeq(visits, LAMBDA v : v.player_id = player_id)
        not_bust == SelectSeq(v_for_player, LAMBDA v : ~v.bust)
        valid_totals == [i \in 1..Len(not_bust) |-> not_bust[i].total]
    IN PlayerStats(
        player_id,
        Len(v_for_player),
        SumSeq([i \in 1..Len(v_for_player) |-> Len(v_for_player[i].darts)]),
        SumSeq(valid_totals),
        CountOf(v_for_player, LAMBDA v : v.bust),
        CountOf(v_for_player, LAMBDA v : v.checkout),
        CountOf(v_for_player, LAMBDA v : is_checkout_attempt(v, double_out)),
        MaxOrZero(valid_totals),
        CountOf(v_for_player, LAMBDA v : ~v.bust /\ v.total = 180),
        CountOf(v_for_player, LAMBDA v : ~v.bust /\ v.total >= 140),
        CountOf(v_for_player, LAMBDA v : ~v.bust /\ v.total >= 100))

\* compute_match_stats
compute_match_stats(st) ==
    MatchStats(accumulate(1, st.history, st.config.double_out),
               accumulate(2, st.history, st.config.double_out))

(***************************************************************************)
(* Inputs.                                                                 *)
(***************************************************************************)
ValidDartInputs == {Dart(0, 0), Dart(1, 1), Dart(1, 2)}

InvalidDartInputs == {Dart(1, 0), Dart(21, 1), Dart(25, 3), Dart(1, 4)}

FourMisses == <<Dart(0, 0), Dart(0, 0), Dart(0, 0), Dart(0, 0)>>

DartsInputs ==
    {<<>>}
    \cup {<<a>> : a \in ValidDartInputs \cup InvalidDartInputs}
    \cup {<<Dart(1, 2), Dart(0, 0)>>}
    \cup {<<Dart(0, 0), Dart(1, 1), Dart(1, 1)>>}
    \cup {FourMisses}

PlayerIdInputs == {None, 1, 2}

\* (darts, player_id) pairs submitted: every darts input without player_id,
\* and two of them with each player_id.
VisitInputs ==
    {<<d, None>> : d \in DartsInputs}
    \cup {<<d, p>> : d \in {<<Dart(1, 2)>>, FourMisses},
                     p \in PlayerIdInputs \ {None}}

\* The configs a match is constructed with: every starting_score up to
\* MaxStart under both finish rules, with the shortest and the longest set
\* and match.
Configs ==
    {MatchConfig(s, d, l, m) :
        s \in 1..MaxStart, d \in BOOLEAN,
        l \in {1, MaxLegs}, m \in {1, MaxSets}}

\* The configs passed to reset().
ResetConfigInputs ==
    {MatchConfig(1, TRUE, 1, 1), MatchConfig(MaxStart, FALSE, MaxLegs, MaxSets)}

\* The argument of reset: absent, or one of the configs.
ResetInputs == {<<>>} \cup {<<c>> : c \in ResetConfigInputs}

Idle == [pc |-> "idle", st |-> InitState(MatchConfig(1, FALSE, 1, 1)),
         new |-> InitState(MatchConfig(1, FALSE, 1, 1)),
         player_id |-> None, result |-> "none"]

Threads == {1, 2}

\* The arguments of one suggest_checkouts call.
SolverArgs(r, d, m, l) ==
    [remaining |-> r, double_out |-> d, max_darts |-> m, limit |-> l]

\* Calls with 1 to 3 darts take every remaining up to MaxRemaining and some
\* higher ones; the arguments the guards turn away are tried on three
\* remainings.
SolverInputs ==
    {SolverArgs(r, d, m, l) :
        r \in (1..MaxRemaining) \cup {98, 100, 170},
        d \in BOOLEAN, m \in {1, 2, 3}, l \in {1, MaxLimit}}
    \cup {SolverArgs(r, d, m, l) :
        r \in {0, 40, 171}, d \in BOOLEAN, m \in {0, 3, 4}, l \in {-1, 0, 1}}

\* The calls made for the thrower of a match: remaining is the thrower's.
AgreeInputs ==
    {SolverArgs(r, d, m, l) :
        r \in (1..MaxRemaining) \cup {98, 100, 170},
        d \in BOOLEAN, m \in {1, 2, 3}, l \in {1, MaxLimit}}

\* No call made.
NotCalled == [raised |-> "not called", routes |-> <<>>]

SolverIdle ==
    /\ sc_args = SolverArgs(0, FALSE, 0, 0)
    /\ sc_result = NotCalled
    /\ sc_earlier = NotCalled

\* The rotations of a calibration: every degree of a sixth of a turn around
\* 0, the quarter turns and more than a full turn either way.
RotationInputs ==
    ((-MaxRotation)..MaxRotation) \cup {-400, -360, -45, 45, 90, 180, 270, 360, 720}

\* A second set of ring ratios, the double ring reaching past radius_px.
WideRings == DartboardRingRatios(100, 200, 500, 600, 900, 1100)

CalibrationInputs ==
    {DartboardCalibration(c[1], c[2], 1000 * k, rot, rings) :
        c \in {<<0, 0>>, <<1500, 900>>}, k \in 1..MaxRadius,
        rot \in RotationInputs, rings \in {DefaultRings, WideRings}}

\* The eight directions a point is taken in from the centre: <<dx, dy>> with
\* y growing downwards.
Directions ==
    {<<0, -1>>, <<1, -1>>, <<1, 0>>, <<1, 1>>,
     <<0, 1>>, <<-1, 1>>, <<-1, 0>>, <<-1, -1>>}

\* The distances of a point along its direction, in thousandths of
\* radius_px: on both sides of every ring edge and on the edges.
Reaches ==
    {0, 26, 27, 37, 38, 66, 67, 94, 95, 100, 101, 200, 201, 300, 411, 412,
     444, 445, 499, 500, 581, 582, 600, 601, 629, 630, 673, 674, 707, 708,
     899, 900, 940, 952, 953, 1000, 1001, 1100, 1101, 1200}

\* The pixels scored under calibration c.
PointInputs(c) ==
    {<<c.center_x + d[1] * ((p * c.radius_px) \div 1000),
       c.center_y + d[2] * ((p * c.radius_px) \div 1000)>> :
        d \in Directions, p \in Reaches}

\* No point scored.
NotScored == DartScore(0, 0, "not scored", None, 0)

\* score_darts not called.
NoDartsScored == <<<<>>, -1>>

\* Where the darts of a visit are aimed: <<direction, reach>>.
VisitAims ==
    {<<<<0, -1>>, 0>>, <<<<0, -1>>, 66>>, <<<<0, -1>>, 300>>,
     <<<<0, -1>>, 600>>, <<<<0, -1>>, 953>>, <<<<0, -1>>, 1200>>,
     <<<<1, 0>>, 600>>, <<<<1, 0>>, 953>>,
     <<<<-1, 1>>, 300>>, <<<<-1, 1>>, 444>>}

\* The pixels of the visits scored under calibration c.
VisitPoints(c) ==
    {<<c.center_x + a[1][1] * ((a[2] * c.radius_px) \div 1000),
       c.center_y + a[1][2] * ((a[2] * c.radius_px) \div 1000)>> :
        a \in VisitAims}

\* The lists of at most 3 pixels passed to score_darts.
VisitPointsInputs(c) ==
    {<<>>}
    \cup {<<a>> : a \in VisitPoints(c)}
    \cup {<<a, b>> : a \in VisitPoints(c), b \in VisitPoints(c)}
    \cup {<<a, b, d>> : a \in VisitPoints(c), b \in VisitPoints(c),
                        d \in VisitPoints(c)}

\* The calibrations the visits are scored under.
VisitCalibrationInputs ==
    {c \in CalibrationInputs : c.rotation_deg \in {0, 9}}

BoardIdle ==
    /\ calib = DartboardCalibration(0, 0, 1000, 0, DefaultRings)
    /\ point = <<0, 0>>
    /\ dart_score = NotScored
    /\ sd_points = <<>>
    /\ sd_result = NoDartsScored

\* The matches the stats are taken of: two legs to win, so that a checkout
\* does not end the match.
StatsConfigs == {MatchConfig(StatsStart, d, 2, 1) : d \in BOOLEAN}

\* The visits thrown in them: 180, 140, 100, 60, 20 on a double and 0.
StatsDartsInputs ==
    {<<Dart(20, 3), Dart(20, 3), Dart(20, 3)>>,
     <<Dart(20, 3), Dart(20, 3), Dart(10, 2)>>,
     <<Dart(20, 3), Dart(20, 2)>>,
     <<Dart(20, 3)>>,
     <<Dart(10, 2)>>,
     <<Dart(0, 0)>>}

\* No stats requested: the stats of a match without visits.
StatsIdle ==
    match_stats = compute_match_stats(InitState(MatchConfig(1, FALSE, 1, 1)))

\* The ring ratios a calibration is constructed with, in thousandths: the
\* defaults, a double ring of no width, and one thing wrong at a time.
FloatRings(ib, ob, ti, to, di, do) ==
    DartboardRingRatios(ib, ob, ti, to, di, do)

RingInputs ==
    {FloatRings(Finite(37), Finite(94), Finite(582), Finite(629), Finite(953), Finite(1000)),
     FloatRings(Finite(37), Finite(94), Finite(582), Finite(629), Finite(1000), Finite(1000)),
     FloatRings(Finite(37), Finite(94), Finite(582), Finite(629), Finite(953), inf),
     FloatRings(Finite(37), Finite(94), Finite(582), Finite(629), inf, inf),
     FloatRings(Finite(0), Finite(94), Finite(582), Finite(629), Finite(953), Finite(1000)),
     FloatRings(Finite(-37), Finite(94), Finite(582), Finite(629), Finite(953), Finite(1000)),
     FloatRings(Finite(94), Finite(94), Finite(582), Finite(629), Finite(953), Finite(1000)),
     FloatRings(Finite(37), Finite(94), Finite(629), Finite(582), Finite(953), Finite(1000)),
     FloatRings(Finite(37), Finite(94), Finite(582), Finite(629), Finite(1000), Finite(953)),
     FloatRings(Finite(37), Finite(94), Finite(582), nan, Finite(953), Finite(1000)),
     FloatRings(nan, Finite(94), Finite(582), Finite(629), Finite(953), Finite(1000))}

\* The numbers a calibration is constructed from.
ConstructionInputs ==
    {DartboardCalibration(cx, Finite(0), radius, rot, rings) :
        cx \in {Finite(0), nan},
        radius \in {Finite(-1000), Finite(0), Finite(1000), nan, inf},
        rot \in {Finite(0), Finite(90), nan, inf},
        rings \in RingInputs}

\* The pixels scored under it: to the right of and below the origin, in
\* every ring of a default board of 1000 pixels and outside it.
ConstructionPoints ==
    {<<0, 0>>, <<50, 0>>, <<0, 300>>, <<600, 0>>, <<0, 960>>, <<1000, 0>>,
     <<0, 1500>>}

NotConstructed ==
    [raised |-> "not constructed",
     calib |-> DartboardCalibration(Finite(0), Finite(0), Finite(1000), Finite(0),
                                    FloatRings(Finite(37), Finite(94), Finite(582),
                                               Finite(629), Finite(953), Finite(1000)))]

CtorIdle ==
    /\ cal_args = NotConstructed.calib
    /\ cal_made = NotConstructed
    /\ cal_point = <<0, 0>>
    /\ cal_scored = "not scored"

\* The camera ids: the n-th uuid4 drawn is n. An id not drawn yet is the id
\* of an unknown camera.
CameraIds == 1..MaxCameras

\* The request threads of the camera routes.
CameraThreads == {1, 2}

\* The bodies uploaded, the empty one among them, and their content type:
\* none is sent, and the route puts image/jpeg.
FrameInputs == {"", "jpg1", "jpg2"}

ContentTypeInputs == {""}

\* The cameras asked for: kind and url.
CameraInputs ==
    {<<"push", "">>, <<"rtsp", "rtsp://cam">>, <<"rtsp", "">>,
     <<"push", "rtsp://cam">>, <<"usb", "">>}

\* An empty camera store that no request has reached.
CameraIdle ==
    /\ cameras = EmptyDict
    /\ latest_frames = EmptyDict
    /\ issued = {}
    /\ requests = [t \in CameraThreads |-> NoRequest]
    /\ response = Response("none", 0, 0, "")
    /\ last_upload = [c \in CameraIds |-> ""]

\* Every dart that satisfies the Dart invariants, among the darts of value
\* 0..25 and multiplier 0..3 a DartDTO can hold.
AllValidDarts ==
    {d \in [value : 0..25, multiplier : 0..3] : DartValid(d)}

\* An order on the darts.
DartLeq(a, b) ==
    a.value < b.value \/ (a.value = b.value /\ a.multiplier <= b.multiplier)

\* Every submission of at most 3 of them, in one order of its darts: a fresh
\* match of 501 tells no two orders apart.
AllVisitInputs ==
    {<<>>}
    \cup {<<a>> : a \in AllValidDarts}
    \cup {v \in AllValidDarts \X AllValidDarts : DartLeq(v[1], v[2])}
    \cup {v \in AllValidDarts \X AllValidDarts \X AllValidDarts :
             DartLeq(v[1], v[2]) /\ DartLeq(v[2], v[3])}

\* No single visit drawn.
VisitIdle == sv_darts = <<>>

\* The matches played to their end: short legs, every length of set and
\* match.
PlayConfigs ==
    {MatchConfig(s, FALSE, l, m) :
        s \in {1, 2}, l \in 1..MaxLegs, m \in 1..MaxSets}

\* The visits of such a match: no dart, and single 1.
PlayDartsInputs == {<<>>, <<Dart(1, 1)>>}

FnIdle ==
    SolverIdle /\ BoardIdle /\ StatsIdle /\ CtorIdle /\ CameraIdle /\ VisitIdle

\* A match that is constructed and not played.
GameIdle ==
    /\ config = MatchConfig(1, FALSE, 1, 1)
    /\ state = InitState(config)
    /\ undo_stack = <<>>
    /\ lastOp = "init"
    /\ lastResult = "ok"
    /\ threads = [t \in Threads |-> Idle]

(***************************************************************************)
(* The sequential specification: whole calls, one at a time.               *)
(***************************************************************************)
Init ==
    /\ config \in Configs
    /\ state = InitState(config)
    /\ undo_stack = <<>>
    /\ lastOp = "init"
    /\ lastResult = "ok"
    /\ threads = [t \in Threads |-> Idle]
    /\ FnIdle

Submit ==
    \E in \in VisitInputs :
        LET r == SubmitVisit(state, undo_stack, in[1], in[2]) IN
        /\ r.result # "ok" \/ Len(state.history) < MaxHist
        /\ state' = r.state
        /\ undo_stack' = r.stack
        /\ lastOp' = "submit"
        /\ lastResult' = r.result
        /\ UNCHANGED <<config, threads, fnVars>>

Undo ==
    LET r == UndoCall(state, undo_stack) IN
    /\ state' = r.state
    /\ undo_stack' = r.stack
    /\ lastOp' = "undo"
    /\ lastResult' = r.result
    /\ UNCHANGED <<config, threads, fnVars>>

\* reset(config=None) and reset(config=c) for a constructed MatchConfig c.
Reset ==
    \E cin \in ResetInputs :
        LET r == ResetCall(config, cin) IN
        /\ config' = r.config
        /\ state' = r.state
        /\ undo_stack' = r.stack
        /\ lastOp' = "reset"
        /\ lastResult' = "ok"
        /\ UNCHANGED <<threads, fnVars>>

Next == Submit \/ Undo \/ Reset

Spec == Init /\ [][Next]_vars

(***************************************************************************)
(* The route specification: the match is played through POST /game/visit,  *)
(* POST /game/undo and POST /game/reset.                                   *)
(***************************************************************************)
PostGameVisit ==
    \E in \in VisitInputs :
        LET r == post_game_visit(state, undo_stack, in[1], in[2]) IN
        /\ r.result # "ok" \/ Len(state.history) < MaxHist
        /\ state' = r.state
        /\ undo_stack' = r.stack
        /\ lastOp' = "submit"
        /\ lastResult' = r.result
        /\ UNCHANGED <<config, threads, fnVars>>

RouteNext == PostGameVisit \/ Undo \/ Reset

SpecRoute == Init /\ [][RouteNext]_vars

(***************************************************************************)
(* The whole-match specification: a match of short legs is played visit by *)
(* visit until it is over or its history is full.                          *)
(***************************************************************************)
PlayInit ==
    /\ config \in PlayConfigs
    /\ state = InitState(config)
    /\ undo_stack = <<>>
    /\ lastOp = "init"
    /\ lastResult = "ok"
    /\ threads = [t \in Threads |-> Idle]
    /\ FnIdle

PlayVisit ==
    \E darts \in PlayDartsInputs :
        LET r == SubmitVisit(state, undo_stack, darts, None) IN
        /\ r.result # "ok" \/ Len(state.history) < MaxPlay
        /\ state' = r.state
        /\ undo_stack' = r.stack
        /\ lastOp' = "submit"
        /\ lastResult' = r.result
        /\ UNCHANGED <<config, threads, fnVars>>

PlayNext == PlayVisit

SpecPlay == PlayInit /\ [][PlayNext]_vars

(***************************************************************************)
(* The visit specification: one visit of any valid darts is submitted to a *)
(* fresh match of 501.                                                     *)
(***************************************************************************)
VisitInit ==
    /\ sv_darts \in AllVisitInputs
    /\ config \in {MatchConfig(501, d, 1, 1) : d \in BOOLEAN}
    /\ state = InitState(config)
    /\ undo_stack = <<>>
    /\ lastOp = "init"
    /\ lastResult = "ok"
    /\ threads = [t \in Threads |-> Idle]
    /\ SolverIdle
    /\ BoardIdle
    /\ StatsIdle
    /\ CtorIdle
    /\ CameraIdle

SubmitDrawn ==
    LET r == SubmitVisit(state, undo_stack, sv_darts, None) IN
    /\ lastOp = "init"
    /\ state' = r.state
    /\ undo_stack' = r.stack
    /\ lastOp' = "submit"
    /\ lastResult' = r.result
    /\ UNCHANGED <<config, threads, sv_darts, solverVars, boardVars,
                   statsVars, ctorVars, cameraVars>>

VisitNext == SubmitDrawn

SpecVisit == VisitInit /\ [][VisitNext]_vars

(***************************************************************************)
(* The concurrent specification: the request threads of the web server run *)
(* submit_visit on the one shared game with no lock.  A thread reads       *)
(* self._state once, works on that value, appends to self._undo_stack and  *)
(* then assigns self._state; the other thread may run between these.       *)
(***************************************************************************)
\* Every concurrent call names the player it expects to be active.
ConcVisitInputs ==
    {<<d, p>> : d \in {<<Dart(0, 0)>>, <<Dart(1, 1)>>, <<Dart(1, 2)>>},
                p \in PlayerIdInputs \ {None}}

\* state = self._state and every check and computation made on it.
TCall(t) ==
    /\ threads[t].pc = "idle"
    /\ \E in \in ConcVisitInputs :
        LET err == RejectReason(state, in[1], in[2]) IN
        /\ err # "ok" \/ Len(undo_stack) < MaxHist
        /\ threads' = [threads EXCEPT ![t] =
              IF err # "ok"
              THEN [pc |-> "done", st |-> state, new |-> state,
                    player_id |-> in[2], result |-> err]
              ELSE [pc |-> "push", st |-> state,
                    new |-> ApplyVisit(state, MakeVisit(state, in[1])),
                    player_id |-> in[2], result |-> "none"]]
    /\ UNCHANGED <<config, state, undo_stack, lastOp, lastResult, fnVars>>

\* self._undo_stack.append(state)
TPush(t) ==
    /\ threads[t].pc = "push"
    /\ undo_stack' = UndoPush(undo_stack, threads[t].st)
    /\ threads' = [threads EXCEPT ![t].pc = "install"]
    /\ UNCHANGED <<config, state, lastOp, lastResult, fnVars>>

\* self._state = MatchState(...); return
TInstall(t) ==
    /\ threads[t].pc = "install"
    /\ state' = threads[t].new
    /\ threads' = [threads EXCEPT ![t].pc = "done", ![t].result = "ok"]
    /\ UNCHANGED <<config, undo_stack, lastOp, lastResult, fnVars>>

\* Both calls have returned; the threads serve the next requests.
TReturn ==
    /\ \A t \in Threads : threads[t].pc = "done"
    /\ threads' = [t \in Threads |-> Idle]
    /\ UNCHANGED <<config, state, undo_stack, lastOp, lastResult, fnVars>>

ConcNext == \E t \in Threads : TCall(t) \/ TPush(t) \/ TInstall(t) \/ TReturn

SpecConc == Init /\ [][ConcNext]_vars

(***************************************************************************)
(* The solver specification: suggest_checkouts called with some arguments, *)
(* called again in the same process run, and called in later runs.         *)
(***************************************************************************)
SolverInit ==
    /\ sc_args \in SolverInputs
    /\ sc_result = NotCalled
    /\ sc_earlier = NotCalled
    /\ GameIdle
    /\ BoardIdle
    /\ StatsIdle
    /\ CtorIdle
    /\ CameraIdle
    /\ VisitIdle

\* The first call with these arguments in a process run.
SuggestEvaluate ==
    /\ sc_result = NotCalled
    /\ sc_result' \in suggest_checkouts(sc_args.remaining, sc_args.double_out,
                                         sc_args.max_darts, sc_args.limit)
    /\ UNCHANGED <<sc_args, sc_earlier, gameVars, boardVars, statsVars, ctorVars, cameraVars, visitVars>>

\* The same call again in the same run: lru_cache returns the stored tuple
\* (a raised ValueError is raised again).
SuggestAgain ==
    /\ sc_result # NotCalled
    /\ sc_earlier' = sc_result
    /\ UNCHANGED <<sc_args, sc_result, gameVars, boardVars, statsVars, ctorVars, cameraVars, visitVars>>

\* The same call in a later process run: the cache is empty and the str hash
\* is salted anew.
SuggestNewRun ==
    /\ sc_result # NotCalled
    /\ sc_earlier' = sc_result
    /\ sc_result' \in suggest_checkouts(sc_args.remaining, sc_args.double_out,
                                         sc_args.max_darts, sc_args.limit)
    /\ UNCHANGED <<sc_args, gameVars, boardVars, statsVars, ctorVars, cameraVars, visitVars>>

SolverNext == SuggestEvaluate \/ SuggestAgain \/ SuggestNewRun

SpecSolver == SolverInit /\ [][SolverNext]_vars

(***************************************************************************)
(* The suggestion specification: suggest_checkouts is called with the      *)
(* remaining of the thrower and the double_out of the match, and one of    *)
(* the routes it returned is submitted as the thrower's visit.             *)
(***************************************************************************)
AgreeInit ==
    /\ sc_args \in AgreeInputs
    /\ sc_result = NotCalled
    /\ sc_earlier = NotCalled
    /\ config = MatchConfig(sc_args.remaining, sc_args.double_out, 1, 1)
    /\ state = InitState(config)
    /\ undo_stack = <<>>
    /\ lastOp = "init"
    /\ lastResult = "ok"
    /\ threads = [t \in Threads |-> Idle]
    /\ BoardIdle
    /\ StatsIdle
    /\ CtorIdle
    /\ CameraIdle
    /\ VisitIdle

\* suggest_checkouts(remaining, double_out=state.config.double_out, ...)
SuggestForThrower ==
    /\ sc_result = NotCalled
    /\ sc_args.remaining
          = get_player(state.players, state.active_player_id).remaining
    /\ sc_result' \in suggest_checkouts(sc_args.remaining,
                                         state.config.double_out,
                                         sc_args.max_darts, sc_args.limit)
    /\ UNCHANGED <<sc_args, sc_earlier, gameVars, boardVars, statsVars,
                   ctorVars, cameraVars, visitVars>>

\* One of the suggested routes is submitted as the visit of the thrower.
SubmitSuggested ==
    /\ sc_result.raised = "none"
    /\ lastOp = "init"
    /\ \E i \in 1..Len(sc_result.routes) :
          LET r == SubmitVisit(state, undo_stack, sc_result.routes[i],
                               state.active_player_id) IN
          /\ state' = r.state
          /\ undo_stack' = r.stack
          /\ lastOp' = "submit"
          /\ lastResult' = r.result
    /\ UNCHANGED <<config, threads, fnVars>>

AgreeNext == SuggestForThrower \/ SubmitSuggested

SpecAgree == AgreeInit /\ [][AgreeNext]_vars

(***************************************************************************)
(* The board specification: score_dart_pixel applied to a pixel under a    *)
(* calibration.                                                            *)
(***************************************************************************)
BoardInit ==
    /\ calib \in CalibrationInputs
    /\ point \in PointInputs(calib)
    /\ dart_score = NotScored
    /\ sd_points = <<>>
    /\ sd_result = NoDartsScored
    /\ GameIdle
    /\ SolverIdle
    /\ StatsIdle
    /\ CtorIdle
    /\ CameraIdle
    /\ VisitIdle

ScorePoint ==
    /\ dart_score = NotScored
    /\ dart_score' = score_dart_pixel(point[1], point[2], calib)
    /\ UNCHANGED <<calib, point, sd_points, sd_result, gameVars, solverVars,
                   statsVars, ctorVars, cameraVars, visitVars>>

BoardNext == ScorePoint

SpecBoard == BoardInit /\ [][BoardNext]_vars


(***************************************************************************)
(* The darts specification: score_darts applied to the pixels of a visit   *)
(* under a calibration.                                                    *)
(***************************************************************************)
DartsInit ==
    /\ calib \in VisitCalibrationInputs
    /\ sd_points \in VisitPointsInputs(calib)
    /\ sd_result = NoDartsScored
    /\ point = <<0, 0>>
    /\ dart_score = NotScored
    /\ GameIdle
    /\ SolverIdle
    /\ StatsIdle
    /\ CtorIdle
    /\ CameraIdle
    /\ VisitIdle

ScoreDarts ==
    /\ sd_result = NoDartsScored
    /\ sd_result' = score_darts(sd_points, calib)
    /\ UNCHANGED <<calib, point, dart_score, sd_points, gameVars, solverVars,
                   statsVars, ctorVars, cameraVars, visitVars>>

DartsNext == ScoreDarts

SpecDarts == DartsInit /\ [][DartsNext]_vars

(***************************************************************************)
(* The construction specification: a DartboardCalibration is constructed   *)
(* from floats, and a pixel is scored under it when it was constructed.    *)
(***************************************************************************)
CtorInit ==
    /\ cal_args \in ConstructionInputs
    /\ cal_made = NotConstructed
    /\ cal_point \in ConstructionPoints
    /\ cal_scored = "not scored"
    /\ GameIdle
    /\ SolverIdle
    /\ BoardIdle
    /\ StatsIdle
    /\ CameraIdle
    /\ VisitIdle

ConstructCalibration ==
    /\ cal_made = NotConstructed
    /\ cal_made' = Construct(cal_args)
    /\ UNCHANGED <<cal_args, cal_point, cal_scored, gameVars, solverVars,
                   boardVars, statsVars, cameraVars, visitVars>>

ScoreConstructed ==
    /\ cal_made.raised = "none"
    /\ cal_scored = "not scored"
    /\ cal_scored' = score_dart_pixel_float(cal_point[1], cal_point[2],
                                            cal_made.calib)
    /\ UNCHANGED <<cal_args, cal_made, cal_point, gameVars, solverVars,
                   boardVars, statsVars, cameraVars, visitVars>>

CtorNext == ConstructCalibration \/ ScoreConstructed

SpecCtor == CtorInit /\ [][CtorNext]_vars


(***************************************************************************)
(* The camera specification: the camera routes, served by request threads  *)
(* that interleave between two calls of the store (every call of the store *)
(* holds its lock).                                                        *)
(***************************************************************************)
CameraInit ==
    /\ CameraIdle
    /\ GameIdle
    /\ SolverIdle
    /\ BoardIdle
    /\ StatsIdle
    /\ CtorIdle
    /\ VisitIdle

\* POST /cameras
CreateCamera ==
    \E in \in CameraInputs :
        LET id == Cardinality(issued) + 1 IN
        /\ IF create_camera_error(in[1], in[2]) # "none"
           THEN /\ response' = Response("create_camera", 0, 422, "")
                /\ UNCHANGED <<cameras, issued>>
           ELSE /\ Cardinality(issued) < MaxCameras
                /\ issued' = issued \cup {id}
                /\ cameras' = create_camera(cameras, id, "cam", in[1], in[2])
                /\ response' = Response("create_camera", id, 200, "")
        /\ UNCHANGED <<latest_frames, requests, last_upload>>
        /\ UNCHANGED <<gameVars, solverVars, boardVars, statsVars, ctorVars, visitVars>>

\* DELETE /cameras/{camera_id}
DeleteCamera ==
    \E id \in CameraIds :
        LET r == delete_camera(cameras, latest_frames, id) IN
        /\ cameras' = r.cameras
        /\ latest_frames' = r.latest_frames
        /\ response' = Response("delete_camera", id, 200,
                                IF r.existed THEN "deleted" ELSE "")
        /\ UNCHANGED <<issued, requests, last_upload>>
        /\ UNCHANGED <<gameVars, solverVars, boardVars, statsVars, ctorVars, visitVars>>

\* InMemoryCameraStore.clear
ClearStore ==
    /\ cameras' = EmptyDict
    /\ latest_frames' = EmptyDict
    /\ response' = Response("clear", 0, 200, "")
    /\ UNCHANGED <<issued, requests, last_upload>>
    /\ UNCHANGED <<gameVars, solverVars, boardVars, statsVars, ctorVars, visitVars>>

\* POST /cameras/{camera_id}/frame up to the read of the body: the camera
\* is looked up and must be a push camera, the body must not be empty.
UploadBegin ==
    \E t \in CameraThreads, id \in CameraIds, ct \in ContentTypeInputs,
       data \in FrameInputs :
        /\ requests[t].pc = "idle"
        /\ IF id \notin DOMAIN cameras
           THEN /\ response' = Response("upload_latest_frame", id, 404, "")
                /\ UNCHANGED requests
           ELSE IF cameras[id].kind # "push"
           THEN /\ response' = Response("upload_latest_frame", id, 409, "")
                /\ UNCHANGED requests
           ELSE IF data = ""
           THEN /\ response' = Response("upload_latest_frame", id, 422, "")
                /\ UNCHANGED requests
           ELSE /\ requests' = [requests EXCEPT ![t] =
                       [pc |-> "upload", camera_id |-> id,
                        content_type |-> IF ct = "" THEN "image/jpeg" ELSE ct,
                        data |-> data]]
                /\ UNCHANGED response
        /\ UNCHANGED <<cameras, latest_frames, issued, last_upload>>
        /\ UNCHANGED <<gameVars, solverVars, boardVars, statsVars, ctorVars, visitVars>>

\* ... and from set_latest_frame on.
UploadStore ==
    \E t \in CameraThreads :
        /\ requests[t].pc = "upload"
        /\ LET q == requests[t]
               r == set_latest_frame(cameras, latest_frames, q.camera_id,
                                     q.content_type, q.data)
           IN /\ latest_frames' = r.latest_frames
              /\ IF r.raised = "KeyError"
                 THEN /\ response' = Response("upload_latest_frame",
                                              q.camera_id, 404, "")
                      /\ UNCHANGED last_upload
                 ELSE /\ response' = Response("upload_latest_frame",
                                              q.camera_id, 200, "")
                      /\ last_upload' =
                             [last_upload EXCEPT ![q.camera_id] = q.data]
        /\ requests' = [requests EXCEPT ![t] = NoRequest]
        /\ UNCHANGED <<cameras, issued>>
        /\ UNCHANGED <<gameVars, solverVars, boardVars, statsVars, ctorVars, visitVars>>

\* GET /cameras/{camera_id}/latest.jpg up to get_camera: an rtsp camera is
\* read from its stream, which gives a snapshot or fails.
LatestBegin ==
    \E t \in CameraThreads, id \in CameraIds :
        /\ requests[t].pc = "idle"
        /\ IF id \notin DOMAIN cameras
           THEN /\ response' = Response("latest_jpeg", id, 404, "")
                /\ UNCHANGED requests
           ELSE IF cameras[id].kind = "rtsp"
           THEN /\ \E status \in {200, 504} :
                      response' = Response("latest_jpeg", id, status,
                           IF status = 200 THEN "snapshot" ELSE "")
                /\ UNCHANGED requests
           ELSE /\ requests' = [requests EXCEPT ![t] =
                       [pc |-> "latest", camera_id |-> id,
                        content_type |-> "", data |-> ""]]
                /\ UNCHANGED response
        /\ UNCHANGED <<cameras, latest_frames, issued, last_upload>>
        /\ UNCHANGED <<gameVars, solverVars, boardVars, statsVars, ctorVars, visitVars>>

\* ... and from get_latest_frame on.
LatestFinish ==
    \E t \in CameraThreads :
        /\ requests[t].pc = "latest"
        /\ LET id == requests[t].camera_id IN
           response' =
               IF id \notin DOMAIN latest_frames
               THEN Response("latest_jpeg", id, 404, "")
               ELSE Response("latest_jpeg", id, 200, latest_frames[id].data)
        /\ requests' = [requests EXCEPT ![t] = NoRequest]
        /\ UNCHANGED <<cameras, latest_frames, issued, last_upload>>
        /\ UNCHANGED <<gameVars, solverVars, boardVars, statsVars, ctorVars, visitVars>>

CameraNext ==
    \/ CreateCamera
    \/ DeleteCamera
    \/ ClearStore
    \/ UploadBegin
    \/ UploadStore
    \/ LatestBegin
    \/ LatestFinish

SpecCamera == CameraInit /\ [][CameraNext]_vars

(***************************************************************************)
(* The stats specification: a match is played visit by visit and the match *)
(* stats are fetched after each call.                                      *)
(***************************************************************************)
StatsInit ==
    /\ config \in StatsConfigs
    /\ state = InitState(config)
    /\ undo_stack = <<>>
    /\ lastOp = "init"
    /\ lastResult = "ok"
    /\ threads = [t \in Threads |-> Idle]
    /\ match_stats = compute_match_stats(state)
    /\ SolverIdle
    /\ BoardIdle
    /\ CtorIdle
    /\ CameraIdle
    /\ VisitIdle

\* POST /game/visit followed by GET /game/stats.
StatsVisit ==
    \E darts \in StatsDartsInputs :
        LET r == SubmitVisit(state, undo_stack, darts, None) IN
        /\ r.result # "ok" \/ Len(state.history) < MaxStatsVisits
        /\ state' = r.state
        /\ undo_stack' = r.stack
        /\ lastOp' = "submit"
        /\ lastResult' = r.result
        /\ match_stats' = compute_match_stats(state')
        /\ UNCHANGED <<config, threads, solverVars, boardVars, ctorVars, cameraVars, visitVars>>

StatsNext == StatsVisit

SpecStats == StatsInit /\ [][StatsNext]_vars

(***************************************************************************)
(* Properties.                                                             *)
(***************************************************************************)
\* The step is an accepted submit_visit.
Accepted == lastOp' = "submit" /\ lastResult' = "ok"

Visits(st) == {st.history[i] : i \in 1..Len(st.history)}

LastDart(v) == v.darts[Len(v.darts)]

\* C1: after any accepted submit_visit, undo() gives back the pre-submit state
\* in every field and the pre-submit undo stack (so k accepted visits followed
\* by k undos give back the state before the first of them).
C1_SubmitUndoRestores ==
    [][Accepted =>
         UndoCall(state', undo_stack') =
             [state |-> state, stack |-> undo_stack, result |-> "ok"]]_vars

\* An undo has succeeded and left a state that itself has visits to undo.
C1_Witness ==
    lastOp = "undo" /\ lastResult = "ok" /\ Len(undo_stack) >= 1

\* C2: a rejected submit_visit or undo leaves the match state, its history,
\* the undo stack and the config exactly as they were.
C2_RejectedLeavesUntouched ==
    [][(lastOp' \in {"submit", "undo"} /\ lastResult' # "ok") =>
         (state' = state /\ undo_stack' = undo_stack /\ config' = config)]_vars

\* A visit was rejected by the last check of submit_visit, in mid-match.
C2_Witness ==
    lastOp = "submit" /\ lastResult = "DARTS_AFTER_CHECKOUT" /\ Len(undo_stack) >= 1

\* C3: of two concurrent submit_visit calls that read the same state, both
\* naming the expected player, at most one is accepted, and once both have
\* returned the undo stack holds one snapshot per visit of the history.
C3_AtomicSubmit ==
    (\A t \in Threads : threads[t].pc = "done") =>
        /\ ~(\E t1 \in Threads, t2 \in Threads :
                /\ t1 # t2
                /\ threads[t1].result = "ok" /\ threads[t2].result = "ok"
                /\ threads[t1].player_id # None /\ threads[t2].player_id # None
                /\ threads[t1].st = threads[t2].st)
        /\ Len(undo_stack) = Len(state.history)

\* C4: a bust visit has remaining_after = remaining_before and leaves the
\* thrower's remaining unchanged; any other visit has
\* remaining_after = remaining_before - total <= remaining_before.
C4_BustReverts ==
    /\ \A v \in Visits(state) :
          /\ v.bust => v.remaining_after = v.remaining_before
          /\ ~v.bust => /\ v.remaining_after = v.remaining_before - v.total
                        /\ v.remaining_after <= v.remaining_before
    /\ (state.last_visit # NoVisit /\ state.last_visit.bust) =>
          get_player(state.players, state.last_visit.player_id).remaining
              = state.last_visit.remaining_before

\* The history holds a bust and a scoring visit that is not a checkout.
C4_Witness ==
    /\ \E v \in Visits(state) : v.bust /\ v.total > 0
    /\ \E v \in Visits(state) : ~v.bust /\ ~v.checkout /\ v.total > 0

\* C5: under double-out no visit of the history has remaining_after = 1.
C5_NeverLeavesOne ==
    state.config.double_out => \A v \in Visits(state) : v.remaining_after # 1

\* C6: a visit is a checkout only if remaining_after = 0 and (double_out is
\* off or its last dart is a double); no visit is both bust and checkout.
C6_CheckoutOnlyOnFinish ==
    \A v \in Visits(state) :
        /\ v.checkout =>
              /\ v.remaining_after = 0
              /\ ~state.config.double_out \/ is_double(LastDart(v))
        /\ ~(v.bust /\ v.checkout)

\* A double-out checkout is in the history, and so is a bust on a finish
\* that did not end on a double.
C6_Witness ==
    /\ state.config.double_out
    /\ \E v \in Visits(state) : v.checkout
    /\ \E v \in Visits(state) : v.bust /\ v.total = v.remaining_before

\* The accepted visit is a checkout that brings the thrower's legs to the target.
ReachesLegTarget ==
    /\ Accepted
    /\ state'.last_visit.checkout
    /\ get_player(state.players, state.active_player_id).legs_won + 1
          = state.config.legs_to_win_set

\* C7 as stated: whenever a checkout brings the thrower's legs_won to
\* legs_to_win_set, the thrower's sets_won is one higher, legs_won is 0 and
\* both players' remaining are starting_score.
C7_SetAwardedAlways ==
    [][ReachesLegTarget =>
         LET p == state.active_player_id IN
         /\ get_player(state'.players, p).sets_won
               = get_player(state.players, p).sets_won + 1
         /\ get_player(state'.players, p).legs_won = 0
         /\ \A q \in {1, 2} :
               get_player(state'.players, q).remaining = state.config.starting_score]_vars

\* C7 amended: such a checkout always raises the thrower's sets_won by one;
\* when it does not complete the match both players' legs_won are 0 and both
\* remaining are starting_score; when it completes the match the winner keeps
\* legs_won = legs_to_win_set and remaining 0 and the opponent is unchanged.
C7_SetAwarded ==
    [][ReachesLegTarget =>
         LET p == state.active_player_id
             o == other_player_id(p)
         IN
         /\ get_player(state'.players, p).sets_won
               = get_player(state.players, p).sets_won + 1
         /\ state'.last_set_winner_player_id = p
         /\ IF state'.winner_player_id = None
            THEN \A q \in {1, 2} :
                    /\ get_player(state'.players, q).legs_won = 0
                    /\ get_player(state'.players, q).remaining
                          = state.config.starting_score
            ELSE /\ get_player(state'.players, p).legs_won
                       = state.config.legs_to_win_set
                 /\ get_player(state'.players, p).remaining = 0
                 /\ get_player(state'.players, o) = get_player(state.players, o)]_vars

\* A set was just won on the second leg and the match goes on.
C7_Witness ==
    /\ lastOp = "submit" /\ lastResult = "ok"
    /\ state.last_visit.checkout
    /\ state.config.legs_to_win_set = 2
    /\ state.last_set_winner_player_id = state.last_visit.player_id
    /\ state.winner_player_id = None
    /\ state.set_number = 2

\* C8: the winner is p exactly when p has sets_won >= sets_to_win_match, never
\* for both players; the visit that ends the match leaves the active player
\* as it was (the winner); every submit_visit after it is rejected ALREADY_OVER.
C8_WinnerIffSetsReached ==
    /\ [](/\ \A p \in {1, 2} :
               (state.winner_player_id = p) <=>
                   (get_player(state.players, p).sets_won
                        >= state.config.sets_to_win_match)
          /\ ~(\A p \in {1, 2} :
                  get_player(state.players, p).sets_won
                      >= state.config.sets_to_win_match))
    /\ [][/\ (Accepted /\ state'.winner_player_id # None) =>
                /\ state'.active_player_id = state.active_player_id
                /\ state'.active_player_id = state'.winner_player_id
          /\ (state.winner_player_id # None /\ lastOp' = "submit") =>
                lastResult' = "ALREADY_OVER"]_vars

\* The visit that ends a two-set match has just been accepted.
C8_Witness ==
    /\ lastOp = "submit" /\ lastResult = "ok"
    /\ state.winner_player_id # None
    /\ state.config.sets_to_win_match = 2

C10_OnlyResetExits ==
    [][(state.winner_player_id # None /\ lastOp' # "reset") =>
         state'.winner_player_id # None]_vars

\* C10 amended: from a state with a match winner only reset and undo produce a
\* state in which the match is in progress; submit_visit leaves the state as
\* it is.
C10_OnlyResetOrUndoExits ==
    [][state.winner_player_id # None =>
         /\ state'.winner_player_id = None => lastOp' \in {"reset", "undo"}
         /\ lastOp' = "submit" => (state' = state /\ undo_stack' = undo_stack)]_vars

\* A submit_visit was rejected on a finished match.
C10_Witness ==
    /\ lastOp = "submit" /\ lastResult = "ALREADY_OVER"
    /\ state.winner_player_id # None

\* The state a fresh match of config c is specified to start in: both players
\* on the starting score with no legs and no sets, player 1 to throw and
\* starting leg 1 of set 1, no winner, no visit.
FreshMatch(c) ==
    [config |-> c,
     players |-> <<[player_id |-> 1, remaining |-> c.starting_score,
                    legs_won |-> 0, sets_won |-> 0],
                   [player_id |-> 2, remaining |-> c.starting_score,
                    legs_won |-> 0, sets_won |-> 0]>>,
     active_player_id |-> 1,
     leg_starter_player_id |-> 1,
     set_number |-> 1,
     leg_number_in_set |-> 1,
     winner_player_id |-> None,
     last_leg_winner_player_id |-> None,
     last_set_winner_player_id |-> None,
     last_visit |-> NoVisit,
     history |-> <<>>]

\* C11: reset, with or without a config, from any reachable state gives the
\* initial state of the effective config with an empty undo stack (undo then
\* fails with NOTHING_TO_UNDO), and a config passed to reset is the one a
\* later reset without a config starts from.
C11_ResetGivesFreshMatch ==
    /\ state.config = config
    /\ lastOp = "reset" =>
          /\ state = FreshMatch(config)
          /\ undo_stack = <<>>
          /\ UndoCall(state, undo_stack).result = "NOTHING_TO_UNDO"
    /\ \A cin \in ResetInputs :
          LET r == ResetCall(config, cin)
              effective == IF cin = <<>> THEN config ELSE cin[1] IN
          /\ r.state = FreshMatch(effective)
          /\ r.stack = <<>>
          /\ ResetCall(r.config, <<>>).state = FreshMatch(effective)

\* A reset has acted and left the fresh match of the config in effect.
C11_Witness ==
    /\ lastOp = "reset"
    /\ config = MatchConfig(MaxStart, FALSE, MaxLegs, MaxSets)
    /\ state = FreshMatch(config)
    /\ undo_stack = <<>>

\* The last call returned a list of routes.
SolverReturned == sc_result.raised = "none"

\* The routes of the returned list.
ReturnedRoutes == {sc_result.routes[i] : i \in 1..Len(sc_result.routes)}

\* C12: every route suggest_checkouts returns has between 1 and max_darts
\* darts, each a scoring dart (no miss, no triple bull), the dart scores sum
\* to remaining, and under double_out the last dart is a double.
C12_RoutesAreCheckouts ==
    SolverReturned =>
        \A route \in ReturnedRoutes :
            /\ Len(route) >= 1 /\ Len(route) <= sc_args.max_darts
            /\ \A j \in 1..Len(route) :
                  /\ route[j].value \in (1..20) \cup {25}
                  /\ route[j].multiplier \in {1, 2, 3}
                  /\ ~(route[j].value = 25 /\ route[j].multiplier = 3)
            /\ SumScores(route, Len(route)) = sc_args.remaining
            /\ sc_args.double_out => route[Len(route)].multiplier = 2

\* A double-out call returned a full list that holds a route of 3 darts.
C12_Witness ==
    /\ SolverReturned
    /\ sc_args.double_out
    /\ Len(sc_result.routes) = MaxLimit
    /\ \E route \in ReturnedRoutes : Len(route) = 3

\* C13 as stated: the last dart of every returned route is a double if and
\* only if double_out is on.
C13_DoubleIffDoubleOut ==
    SolverReturned =>
        \A route \in ReturnedRoutes :
            route[Len(route)].multiplier = 2 <=> sc_args.double_out

\* C13: under double_out the last dart of every returned route is a double;
\* with double_out off the finish is any scoring dart, a double included: a
\* call that returns with limit >= 3 holds the one-dart route of every
\* scoring dart whose score is remaining.
C13_FinishRule ==
    SolverReturned /\ sc_args.remaining > 0 /\ sc_args.limit >= 1 =>
        /\ sc_args.double_out =>
              \A route \in ReturnedRoutes : route[Len(route)].multiplier = 2
        /\ ~sc_args.double_out /\ sc_args.limit >= 3 =>
              \A v \in (1..20) \cup {25} : \A m \in {1, 2, 3} :
                  ~(v = 25 /\ m = 3) /\ v * m = sc_args.remaining
                      => <<Dart(v, m)>> \in ReturnedRoutes

\* With double_out off, a returned list holds a route that ends on a double
\* and a route that does not.
C13_Witness ==
    /\ SolverReturned
    /\ ~sc_args.double_out
    /\ \E route \in ReturnedRoutes : route[Len(route)].multiplier = 2
    /\ \E route \in ReturnedRoutes : route[Len(route)].multiplier # 2

\* C14: under double_out with limit >= 1, when remaining is the score of one
\* double (an even number 2..40, or 50) the first suggestion of a call that
\* returns is the one-dart route of that double: D20 for 40, DBULL for 50.
C14_OneDartDoubleFirst ==
    /\ SolverReturned /\ sc_args.max_darts \in {1, 2, 3}
    /\ sc_args.double_out /\ sc_args.limit >= 1
    /\ sc_args.remaining \in {2 * v : v \in 1..20} \cup {50}
    => /\ Len(sc_result.routes) >= 1
       /\ sc_result.routes[1] = <<Dart(sc_args.remaining \div 2, 2)>>
       /\ sc_args.remaining = 40 => FormatRoute(sc_result.routes[1]) = "D20"
       /\ sc_args.remaining = 50 => FormatRoute(sc_result.routes[1]) = "DBULL"

\* The call for 50 with up to 3 darts returned DBULL first, ahead of longer
\* routes.
C14_Witness ==
    /\ SolverReturned
    /\ sc_args = SolverArgs(50, TRUE, 3, MaxLimit)
    /\ Len(sc_result.routes) > 1
    /\ FormatRoute(sc_result.routes[1]) = "DBULL"

\* C15: two evaluations of suggest_checkouts with the same four arguments,
\* cached or not and in the same or in a different process run, return the
\* same routes in the same order.
C15_SameArgsSameRoutes ==
    sc_earlier # NotCalled => sc_result = sc_earlier

\* The doubles C16 lists as common finishing doubles.
CommonFinishes ==
    {Dart(v, 2) : v \in {20, 16, 18, 10, 8, 12, 6, 4, 2, 25}}

\* C16: among the suggested routes of equal dart count, every route that
\* finishes on D20, D16, D18, D10, D8, D12, D6, D4, D2 or DBULL is ranked
\* ahead of every route that finishes on another dart.
C16_CommonDoublesFirst ==
    SolverReturned =>
        \A i, j \in 1..Len(sc_result.routes) :
            LET ri == sc_result.routes[i]
                rj == sc_result.routes[j] IN
            /\ Len(ri) = Len(rj)
            /\ ri[Len(ri)] \in CommonFinishes
            /\ rj[Len(rj)] \notin CommonFinishes
            => i < j

\* A point has been scored.
Scored == dart_score # NotScored

\* The scored point relative to the board centre.
PointDx == point[1] - calib.center_x

PointDy == point[2] - calib.center_y

\* C17: score_point classifies by the radius ratio rr: rr > double_outer is
\* a miss (0,0,0); else rr <= inner_bull is double bull (25,2,50); else
\* rr <= outer_bull is single bull (25,1,25); else the sector with multiplier
\* 2 when double_inner <= rr <= double_outer, 3 when triple_inner <= rr <=
\* triple_outer, 1 otherwise, and score = sector x multiplier.
C17_RingByRadiusRatio ==
    Scored =>
        LET Leq(ratio) == RatioLeq(PointDx, PointDy, calib.radius_px, ratio)
            Geq(ratio) == RatioGeq(PointDx, PointDy, calib.radius_px, ratio)
            rings == calib.rings
            got == <<dart_score.value, dart_score.multiplier, dart_score.score>>
        IN IF ~Leq(rings.double_outer_r) THEN got = <<0, 0, 0>>
           ELSE IF Leq(rings.inner_bull_r) THEN got = <<25, 2, 50>>
           ELSE IF Leq(rings.outer_bull_r) THEN got = <<25, 1, 25>>
           ELSE /\ dart_score.value \in 1..20
                /\ dart_score.value = dart_score.sector
                /\ dart_score.multiplier =
                      IF Geq(rings.double_inner_r) /\ Leq(rings.double_outer_r)
                      THEN 2
                      ELSE IF Geq(rings.triple_inner_r) /\ Leq(rings.triple_outer_r)
                      THEN 3
                      ELSE 1
                /\ dart_score.score = dart_score.value * dart_score.multiplier

\* A point on the outer edge of the double ring was scored as a double.
C17_Witness ==
    /\ Scored
    /\ RatioLeq(PointDx, PointDy, calib.radius_px, calib.rings.double_outer_r)
    /\ RatioGeq(PointDx, PointDy, calib.radius_px, calib.rings.double_outer_r)
    /\ dart_score.multiplier = 2
    /\ dart_score.score = 2 * dart_score.sector

\* The clockwise angle from straight-up of the direction <<dx, dy>>, in
\* degrees (y grows downwards).
ClockwiseFromUp(dx, dy) ==
    CASE dx = 0 /\ dy < 0 -> 0
      [] dx > 0 /\ dy = -dx -> 45
      [] dx > 0 /\ dy = 0 -> 90
      [] dx > 0 /\ dy = dx -> 135
      [] dx = 0 /\ dy > 0 -> 180
      [] dx < 0 /\ dy = -dx -> 225
      [] dx < 0 /\ dy = 0 -> 270
      [] dx < 0 /\ dy = dx -> 315

\* The point's distance from the centre along its direction, in pixels.
PointReach == IF PointDx # 0 THEN (IF PointDx < 0 THEN -PointDx ELSE PointDx)
              ELSE (IF PointDy < 0 THEN -PointDy ELSE PointDy)

\* C18: for a point outside the bulls and inside the board the sector is
\* ORDER[((a + rotation_deg + 9) mod 360) div 18], a being the clockwise
\* angle from straight-up; so a point at angle a under rotation r has the
\* sector of the point at angle a + r under rotation 0 (top is 20 and right
\* is 6 at rotation 0, top is 6 at rotation +90).
C18_SectorByAngle ==
    Scored /\ dart_score.ring \in {"single", "double", "triple"} =>
        LET a == ClockwiseFromUp(PointDx, PointDy) IN
        /\ dart_score.sector =
              SECTOR_ORDER[(((a + calib.rotation_deg + 9) % 360) \div 18) + 1]
        /\ \A d \in Directions :
              LET other == score_dart_pixel(calib.center_x + d[1] * PointReach,
                                            calib.center_y + d[2] * PointReach,
                                            [calib EXCEPT !.rotation_deg = 0])
              IN /\ (ClockwiseFromUp(d[1], d[2])
                        - (a + calib.rotation_deg)) % 360 = 0
                 /\ other.ring \in {"single", "double", "triple"}
                 => other.sector = dart_score.sector
        /\ a = 0 /\ calib.rotation_deg = 0 => dart_score.sector = 20
        /\ a = 90 /\ calib.rotation_deg = 0 => dart_score.sector = 6
        /\ a = 0 /\ calib.rotation_deg = 90 => dart_score.sector = 6

\* The top of the board is scored as 6 under rotation +90, as the right of
\* the board is under rotation 0.
C18_Witness ==
    /\ Scored
    /\ dart_score.ring = "triple"
    /\ PointDx = 0 /\ PointDy < 0
    /\ calib.rotation_deg = 90
    /\ dart_score.sector = 6
    /\ score_dart_pixel(calib.center_x + PointReach, calib.center_y,
                        [calib EXCEPT !.rotation_deg = 0]).sector = 6

\* C19 as stated: with the default ring ratios a point on the vertical axis
\* at 94% of the outer-double radius is scored as single bull (25,1,25).
C19_SingleBullAt94Percent ==
    /\ Scored /\ calib.rings = DefaultRings
    /\ PointDx = 0 /\ 100 * PointReach = 94 * calib.radius_px
    => /\ dart_score.value = 25
       /\ dart_score.multiplier = 1
       /\ dart_score.score = 25

\* C19: with the default ring ratios a point on the vertical axis at 9.4% of
\* the outer-double radius is scored as single bull (25,1,25); at 94% it is
\* scored as a single of the sector on that axis.
C19_SingleBullAt94Thousandths ==
    Scored /\ calib.rings = DefaultRings /\ PointDx = 0 =>
        /\ 1000 * PointReach = 94 * calib.radius_px =>
              /\ dart_score.value = 25
              /\ dart_score.multiplier = 1
              /\ dart_score.score = 25
        /\ 100 * PointReach = 94 * calib.radius_px =>
              /\ dart_score.value \in 1..20
              /\ dart_score.multiplier = 1
              /\ dart_score.ring = "single"

\* The point at 9.4% of the radius above the centre was scored single bull.
C19_Witness ==
    /\ Scored /\ calib.rings = DefaultRings
    /\ PointDx = 0 /\ PointDy < 0
    /\ 1000 * PointReach = 94 * calib.radius_px
    /\ dart_score.ring = "bull"

\* The stats of player p in a MatchStats.
StatsOf(ms, p) == IF p = 1 THEN ms.player_1 ELSE ms.player_2

\* C20: a bust visit adds nothing to its player's scored_points,
\* highest_visit, count_180, count_140_plus or count_100_plus, but adds 1 to
\* visits and to busts and its number of darts to darts_thrown; a visit that
\* is not a bust adds its total to scored_points.
C20_BustsScoreNothing ==
    [][Accepted =>
         LET v == state'.last_visit
             before == StatsOf(match_stats, v.player_id)
             after == StatsOf(match_stats', v.player_id)
         IN /\ v.bust =>
                 /\ after.scored_points = before.scored_points
                 /\ after.highest_visit = before.highest_visit
                 /\ after.count_180 = before.count_180
                 /\ after.count_140_plus = before.count_140_plus
                 /\ after.count_100_plus = before.count_100_plus
                 /\ after.visits = before.visits + 1
                 /\ after.busts = before.busts + 1
                 /\ after.darts_thrown = before.darts_thrown + Len(v.darts)
            /\ ~v.bust =>
                 after.scored_points = before.scored_points + v.total]_vars

\* A visit of 180 was a bust and its player's stats, fetched after it, count
\* the bust.
C20_Witness ==
    /\ lastOp = "submit" /\ lastResult = "ok"
    /\ state.last_visit.bust
    /\ state.last_visit.total = 180
    /\ StatsOf(match_stats, state.last_visit.player_id).busts >= 1
    /\ StatsOf(match_stats, state.last_visit.player_id).visits >= 2

\* C21: every checkout visit is counted as a checkout attempt, so in every
\* reachable match state compute_match_stats gives each player
\* checkout_attempts >= checkouts.
C21_AttemptsCoverCheckouts ==
    /\ \A v \in Visits(state) :
          v.checkout => is_checkout_attempt(v, state.config.double_out)
    /\ \A p \in {1, 2} :
          StatsOf(compute_match_stats(state), p).checkout_attempts
              >= StatsOf(compute_match_stats(state), p).checkouts

\* C22: the construction of a calibration fails exactly when radius_px <= 0,
\* a ring ratio is <= 0, or the ratios are not inner_bull < outer_bull <
\* triple_inner < triple_outer < double_inner <= double_outer, and scoring a
\* point under a constructed calibration never raises an error.
C22_RejectsExactlyInvalid ==
    /\ cal_made # NotConstructed =>
          LET r == cal_args.rings IN
          (cal_made.raised = "ValueError") <=>
              \/ float_le(cal_args.radius_px, Finite(0))
              \/ \E v \in {r.inner_bull_r, r.outer_bull_r, r.triple_inner_r,
                           r.triple_outer_r, r.double_inner_r,
                           r.double_outer_r} : float_le(v, Finite(0))
              \/ ~(/\ float_lt(r.inner_bull_r, r.outer_bull_r)
                   /\ float_lt(r.outer_bull_r, r.triple_inner_r)
                   /\ float_lt(r.triple_inner_r, r.triple_outer_r)
                   /\ float_lt(r.triple_outer_r, r.double_inner_r)
                   /\ float_le(r.double_inner_r, r.double_outer_r))
    /\ cal_scored # "ValueError"

\* C23: once an upload to an existing push camera was answered with ok, the
\* store holds for that camera the bytes of the most recent such upload, and
\* fetching the camera's latest frame returns exactly these bytes, whatever
\* was uploaded to other cameras, as long as the camera is neither deleted
\* nor the store cleared.
C23_LatestIsLastUpload ==
    \A c \in DOMAIN cameras :
        (cameras[c].kind = "push" /\ last_upload[c] # "") =>
            /\ c \in DOMAIN latest_frames
            /\ latest_frames[c].data = last_upload[c]
            /\ (response.op = "latest_jpeg" /\ response.camera_id = c) =>
                  (response.status = 200 /\ response.content = last_upload[c])

\* A camera whose second upload was fetched while another camera holds the
\* bytes the first camera was sent before.
C23_Witness ==
    /\ response = Response("latest_jpeg", 1, 200, "jpg2")
    /\ last_upload[1] = "jpg2"
    /\ 2 \in DOMAIN latest_frames
    /\ latest_frames[2].data = "jpg1"
    /\ \E t \in CameraThreads :
          requests[t].pc = "upload" /\ requests[t].camera_id = 1
              /\ requests[t].data = "jpg1"

\* C24: every accepted visit is classified on proposed = remaining_before -
\* total: it is a bust iff proposed < 0, or double_out and proposed = 1, or
\* proposed = 0 under double_out with a last dart that is not a double; it is
\* a checkout iff proposed = 0 and (double_out is off or the last dart is a
\* double); otherwise it is a normal turn with remaining_after = proposed.
C24_VisitClassification ==
    \A v \in Visits(state) :
        LET proposed == v.remaining_before - v.total
            double_out == state.config.double_out
        IN /\ v.bust <=>
                 \/ proposed < 0
                 \/ double_out /\ proposed = 1
                 \/ proposed = 0 /\ double_out /\ ~is_double(LastDart(v))
           /\ v.checkout <=>
                 proposed = 0 /\ (~double_out \/ is_double(LastDart(v)))
           /\ (~v.bust /\ ~v.checkout) => v.remaining_after = proposed

\* A match under double-out whose history holds a bust that left 1, a bust
\* on a finish without a double, and a checkout.
C24_Witness ==
    /\ state.config.double_out
    /\ \E v \in Visits(state) : v.bust /\ v.remaining_before - v.total = 1
    /\ \E v \in Visits(state) :
          v.bust /\ v.remaining_before = v.total /\ ~is_double(LastDart(v))
    /\ \E v \in Visits(state) : v.checkout /\ is_double(LastDart(v))

\* C25: after every checkout that does not end the match, the new leg starter
\* is the other player than the previous leg starter, whoever won the leg
\* and also when a set was won; the active player is the new leg starter;
\* both players' remaining are starting_score; and when no set was won both
\* players keep legs_won and sets_won, but for the winner's legs_won being
\* one higher.
C25_NextLegAfterCheckout ==
    [][(Accepted /\ state'.last_visit.checkout /\ state'.winner_player_id = None) =>
         LET w == state.active_player_id
             l == other_player_id(w)
         IN
         /\ state'.leg_starter_player_id
               = other_player_id(state.leg_starter_player_id)
         /\ state'.active_player_id = state'.leg_starter_player_id
         /\ \A q \in {1, 2} :
               get_player(state'.players, q).remaining
                   = state.config.starting_score
         /\ state'.set_number = state.set_number =>
               /\ get_player(state'.players, w).legs_won
                     = get_player(state.players, w).legs_won + 1
               /\ get_player(state'.players, w).sets_won
                     = get_player(state.players, w).sets_won
               /\ get_player(state'.players, l).legs_won
                     = get_player(state.players, l).legs_won
               /\ get_player(state'.players, l).sets_won
                     = get_player(state.players, l).sets_won]_vars

\* A leg that won a set was just won by the player who did not start it:
\* the winner starts the first leg of the second set and throws first.
C25_Witness ==
    /\ lastOp = "submit" /\ lastResult = "ok"
    /\ state.last_visit.checkout
    /\ state.winner_player_id = None
    /\ state.set_number = 2
    /\ undo_stack[Len(undo_stack)].leg_starter_player_id
          = other_player_id(state.last_visit.player_id)
    /\ state.leg_starter_player_id = state.last_visit.player_id
    /\ state.active_player_id = state.last_visit.player_id

\* C26: the rejections of a submitted visit come in this order: on a finished
\* match ALREADY_OVER, whatever the darts and the expected player; on a match
\* in progress with an expected player who is not the active player
\* NOT_YOUR_TURN, whatever the darts (more than 3 of them included); an error
\* about the number or the content of the darts only when neither applies.
C26_RejectionOrder ==
    \A in \in VisitInputs :
        LET result == post_game_visit(state, undo_stack, in[1], in[2]).result
            out_of_turn == in[2] # None /\ in[2] # state.active_player_id
        IN /\ is_over(state) => result = "ALREADY_OVER"
           /\ (~is_over(state) /\ out_of_turn) => result = "NOT_YOUR_TURN"
           /\ result \in {"TOO_MANY_DARTS", "INVALID_DART",
                          "VISIT_TOTAL_OUT_OF_RANGE", "DARTS_AFTER_CHECKOUT"}
                 => (~is_over(state) /\ ~out_of_turn)

\* The submissions of 1 to 3 valid darts made in the name of the active
\* player or of nobody.
ValidVisitsOfActive ==
    {in \in VisitInputs :
        /\ Len(in[1]) \in 1..3
        /\ \A i \in 1..Len(in[1]) : DartValid(in[1][i])
        /\ in[2] \in {None, state.active_player_id}}

\* The running sum of the darts reaches remaining before the last dart.
ReachedEarly(darts, remaining) ==
    \E i \in 1..(Len(darts) - 1) : SumScores(darts, i) = remaining

\* In every recorded checkout visit the running sum reaches remaining_before
\* on the final dart and not before.
CheckoutsEndOnFinalDart ==
    \A v \in Visits(state) :
        v.checkout =>
            /\ SumScores(v.darts, Len(v.darts)) = v.remaining_before
            /\ ~ReachedEarly(v.darts, v.remaining_before)

\* C27 as stated: a submission of 1 to 3 valid darts from the active player
\* is rejected with DARTS_AFTER_CHECKOUT exactly when the running sum of the
\* dart scores equals the pre-visit remaining after a dart that is not the
\* last one, whatever double_out and that dart are; hence every recorded
\* checkout visit reaches remaining_before on its final dart first.
C27_DartsAfterCheckoutAlways ==
    /\ \A in \in ValidVisitsOfActive :
          (SubmitVisit(state, undo_stack, in[1], in[2]).result
               = "DARTS_AFTER_CHECKOUT")
          <=> ReachedEarly(in[1],
                  get_player(state.players, state.active_player_id).remaining)
    /\ CheckoutsEndOnFinalDart

\* C27 amended: the same on a match in progress; on a finished match, where
\* the winner's remaining is 0, such a submission is rejected with
\* ALREADY_OVER.
C27_DartsAfterCheckout ==
    /\ \A in \in ValidVisitsOfActive :
          LET result == SubmitVisit(state, undo_stack, in[1], in[2]).result
              early == ReachedEarly(in[1],
                  get_player(state.players, state.active_player_id).remaining)
          IN IF is_over(state) THEN result = "ALREADY_OVER"
             ELSE (result = "DARTS_AFTER_CHECKOUT") <=> early
    /\ CheckoutsEndOnFinalDart

\* A visit was just rejected under double-out for the darts after a single
\* that brought the running sum to the remaining 1.
C27_Witness ==
    /\ lastOp = "submit" /\ lastResult = "DARTS_AFTER_CHECKOUT"
    /\ state.config.double_out
    /\ get_player(state.players, state.active_player_id).remaining = 1

\* C28: the range check on the visit total cannot fail: every submission of
\* at most 3 darts that satisfy the Dart invariants has a total in 0..180,
\* and submit_visit never fails with VISIT_TOTAL_OUT_OF_RANGE on it.
C28_TotalInRange ==
    /\ SumScores(sv_darts, Len(sv_darts)) \in 0..180
    /\ lastResult # "VISIT_TOTAL_OUT_OF_RANGE"
    /\ (lastOp = "submit" /\ lastResult = "ok") =>
          state.last_visit.total \in 0..180

\* A visit of three triple 20 was submitted and accepted with total 180.
C28_Witness ==
    /\ lastOp = "submit" /\ lastResult = "ok"
    /\ sv_darts = <<Dart(20, 3), Dart(20, 3), Dart(20, 3)>>
    /\ state.last_visit.total = 180

\* Every visit of the history holds 1 to 3 darts that satisfy the Dart
\* invariants, and its total is the sum of value * multiplier.
HistoryVisitsWellFormed ==
    \A v \in Visits(state) :
        /\ Len(v.darts) \in 1..3
        /\ \A i \in 1..Len(v.darts) :
              /\ v.darts[i].value \in {0} \cup (1..20) \cup {25}
              /\ v.darts[i].multiplier \in 0..3
              /\ (v.darts[i].multiplier = 0) <=> (v.darts[i].value = 0)
              /\ ~(v.darts[i].value = 25 /\ v.darts[i].multiplier = 3)
        /\ v.total = SumScores(v.darts, Len(v.darts))

\* An empty submission is recorded as the one dart (0, 0) and gives what the
\* submission of a single miss gives.
EmptyIsOneMiss ==
    \A p \in PlayerIdInputs :
        LET empty == SubmitVisit(state, undo_stack, <<>>, p)
            miss == SubmitVisit(state, undo_stack, <<Dart(0, 0)>>, p)
        IN /\ empty = miss
           /\ empty.result = "ok" =>
                 empty.state.last_visit.darts = <<Dart(0, 0)>>

\* C29 as stated: every visit of the history holds 1 to 3 valid darts with
\* total the sum of value * multiplier; an empty submission is recorded as
\* one miss and gives the state a single miss gives; a submission of more
\* than 3 darts is rejected with TOO_MANY_DARTS.
C29_VisitDartsAlways ==
    /\ HistoryVisitsWellFormed
    /\ EmptyIsOneMiss
    /\ \A in \in VisitInputs :
          Len(in[1]) > 3 =>
              SubmitVisit(state, undo_stack, in[1], in[2]).result
                  = "TOO_MANY_DARTS"

\* C29 amended: the same, but a submission of more than 3 darts is rejected
\* with TOO_MANY_DARTS only on a match in progress and in turn; on a finished
\* match it is rejected with ALREADY_OVER and out of turn with NOT_YOUR_TURN.
\* It never changes the state.
C29_VisitDarts ==
    /\ HistoryVisitsWellFormed
    /\ EmptyIsOneMiss
    /\ \A in \in VisitInputs :
          Len(in[1]) > 3 =>
              LET r == SubmitVisit(state, undo_stack, in[1], in[2]) IN
              /\ r.state = state /\ r.stack = undo_stack
              /\ r.result =
                    IF is_over(state) THEN "ALREADY_OVER"
                    ELSE IF in[2] # None /\ in[2] # state.active_player_id
                    THEN "NOT_YOUR_TURN"
                    ELSE "TOO_MANY_DARTS"

\* Four darts were just rejected on a match whose history holds a visit of
\* one miss and a visit of three darts.
C29_Witness ==
    /\ lastOp = "submit" /\ lastResult = "TOO_MANY_DARTS"
    /\ \E v \in Visits(state) : v.darts = <<Dart(0, 0)>>
    /\ \E v \in Visits(state) : Len(v.darts) = 3

\* The triple C30 orders by: (number of darts, preference weight of the
\* finishing dart, sum of the preference weights of the setup darts).
WeightTriple(route) ==
    <<Len(route), dart_preference_weight(route[Len(route)]),
      SumWeights(route, Len(route) - 1)>>

\* a is strictly smaller than b in tuple order.
TripleLess(a, b) ==
    \/ a[1] < b[1]
    \/ a[1] = b[1] /\ a[2] < b[2]
    \/ a[1] = b[1] /\ a[2] = b[2] /\ a[3] < b[3]

\* C30: the list suggest_checkouts returns is ordered by non-decreasing
\* (number of darts, finishing dart weight, sum of setup dart weights): no
\* route appears before a route with a strictly smaller triple.
C30_OrderedByTriple ==
    SolverReturned =>
        \A i, j \in 1..Len(sc_result.routes) :
            i < j => ~TripleLess(WeightTriple(sc_result.routes[j]),
                                 WeightTriple(sc_result.routes[i]))

\* A returned list where each component of the triple decides an order: a
\* shorter route ahead of a longer one, a better finish ahead of a worse one
\* of the same length, and a better setup ahead of a worse one with the same
\* length and finish weight.
C30_Witness ==
    /\ SolverReturned
    /\ \E i, j \in 1..Len(sc_result.routes) :
          /\ i < j
          /\ WeightTriple(sc_result.routes[i])[1]
                < WeightTriple(sc_result.routes[j])[1]
    /\ \E i, j \in 1..Len(sc_result.routes) :
          /\ i < j
          /\ WeightTriple(sc_result.routes[i])[1]
                = WeightTriple(sc_result.routes[j])[1]
          /\ WeightTriple(sc_result.routes[i])[2]
                < WeightTriple(sc_result.routes[j])[2]
    /\ \E i, j \in 1..Len(sc_result.routes) :
          /\ i < j
          /\ WeightTriple(sc_result.routes[i])[1]
                = WeightTriple(sc_result.routes[j])[1]
          /\ WeightTriple(sc_result.routes[i])[2]
                = WeightTriple(sc_result.routes[j])[2]
          /\ WeightTriple(sc_result.routes[i])[3]
                < WeightTriple(sc_result.routes[j])[3]

\* The scoring darts: 1..20 as single, double and triple, and the bull as
\* single and double.
ScoringDarts ==
    {d \in [value : (1..20) \cup {25}, multiplier : 1..3] :
        ~(d.value = 25 /\ d.multiplier = 3)}

\* The number of scoring darts that score s.
NumDarts ==
    [s \in 1..60 |->
        Cardinality({d \in ScoringDarts : d.value * d.multiplier = s})]

\* The number of scoring darts that score s and satisfy the finish rule.
NumFinishers ==
    [double_out \in BOOLEAN |->
        [s \in 1..60 |->
            Cardinality({d \in ScoringDarts :
                            /\ d.value * d.multiplier = s
                            /\ double_out => d.multiplier = 2})]]

\* The number of ordered sequences of exactly 1, 2 and 3 scoring darts that
\* sum to r and whose last dart satisfies the finish rule.
CountRoutes1(r, double_out) ==
    IF r \in 1..60 THEN NumFinishers[double_out][r] ELSE 0

RECURSIVE SumFrom(_, _, _)
\* f[lo] + ... + f[hi], by halves.
SumFrom(f, lo, hi) ==
    IF lo > hi THEN 0
    ELSE IF lo = hi THEN f[lo]
    ELSE SumFrom(f, lo, (lo + hi) \div 2)
         + SumFrom(f, ((lo + hi) \div 2) + 1, hi)

\* The first dart scores s and the rest is a shorter sequence for r - s.
CountRoutes2(r, double_out) ==
    SumFrom([s \in 1..60 |->
                IF r - s > 0
                THEN NumDarts[s] * CountRoutes1(r - s, double_out)
                ELSE 0], 1, 60)

CountRoutes3(r, double_out) ==
    SumFrom([s \in 1..60 |->
                IF r - s > 0
                THEN NumDarts[s] * CountRoutes2(r - s, double_out)
                ELSE 0], 1, 60)

\* N of C31 for the arguments of the last call.
NumCheckouts ==
    IF sc_args.remaining <= 0 THEN 0
    ELSE (IF sc_args.max_darts >= 1
          THEN CountRoutes1(sc_args.remaining, sc_args.double_out) ELSE 0)
       + (IF sc_args.max_darts >= 2
          THEN CountRoutes2(sc_args.remaining, sc_args.double_out) ELSE 0)
       + (IF sc_args.max_darts >= 3
          THEN CountRoutes3(sc_args.remaining, sc_args.double_out) ELSE 0)

\* C31: a call of suggest_checkouts that returns gives min(limit, N) routes
\* with pairwise distinct formatted strings, N being the number of ordered
\* sequences of 1..max_darts scoring darts that sum to remaining and end on
\* a dart satisfying the finish rule: none for remaining <= 0, for
\* limit <= 0 and for double_out with remaining > 170, and at least one
\* whenever a finish in at most max_darts darts exists.
C31_ReturnsMinLimitN ==
    SolverReturned =>
        LET routes == sc_result.routes IN
        /\ Len(routes) = IF sc_args.limit <= 0 THEN 0
                         ELSE IF sc_args.limit < NumCheckouts
                         THEN sc_args.limit
                         ELSE NumCheckouts
        /\ \A i, j \in 1..Len(routes) :
              i # j => FormatRoute(routes[i]) # FormatRoute(routes[j])
        /\ sc_args.remaining <= 0 => routes = <<>>
        /\ sc_args.limit <= 0 => routes = <<>>
        /\ sc_args.double_out /\ sc_args.remaining > 170 => routes = <<>>
        /\ NumCheckouts > 0 /\ sc_args.limit > 0 => Len(routes) >= 1

\* A call returned every one of several finishes, fewer than its limit.
C31_Witness ==
    /\ SolverReturned
    /\ sc_args.max_darts = 3
    /\ NumCheckouts > 1 /\ NumCheckouts < sc_args.limit
    /\ Len(sc_result.routes) = NumCheckouts

\* C32: in every state reached by submit_visit, undo and reset the undo
\* stack holds as many snapshots as the history has visits, the snapshot at
\* index i (from 0, as the list is indexed) has the first i visits of the
\* current history as its history, last_visit is the last history entry and
\* is None iff the history is empty, and undo fails with NOTHING_TO_UNDO iff
\* the history is empty.
C32_StackMirrorsHistory ==
    /\ Len(undo_stack) = Len(state.history)
    /\ \A k \in 1..Len(undo_stack) :
          undo_stack[k].history = SubSeq(state.history, 1, k - 1)
    /\ state.last_visit = NoVisit <=> state.history = <<>>
    /\ state.history # <<>> =>
          state.last_visit = state.history[Len(state.history)]
    /\ UndoCall(state, undo_stack).result = "NOTHING_TO_UNDO"
          <=> state.history = <<>>

\* An undo has just taken a visit back and two visits remain.
C32_Witness ==
    /\ lastOp = "undo" /\ lastResult = "ok"
    /\ Len(state.history) = 2
    /\ Len(undo_stack) = 2
    /\ undo_stack[2].history = <<state.history[1]>>

\* The places of the checkout visits in the history.
CheckoutPlaces == {k \in 1..Len(state.history) : state.history[k].checkout}

\* The number of checkouts in the history that did not end the match.
NonEndingCheckouts ==
    Cardinality(CheckoutPlaces) - (IF state.winner_player_id # None THEN 1 ELSE 0)

\* The number of visits recorded since the last checkout.
VisitsSinceCheckout ==
    Len(state.history)
    - (IF CheckoutPlaces = {} THEN 0
       ELSE CHOOSE k \in CheckoutPlaces : \A j \in CheckoutPlaces : j <= k)

\* C33: the history determines the turn order: the leg starter is player 1
\* iff the number of checkouts that did not end the match is even; every
\* recorded visit has the player_id of the player who was active in the
\* state it was submitted in; and while the match is in progress the active
\* player is the leg starter iff the number of visits since the last
\* checkout is even.
C33_TurnOrderFromHistory ==
    /\ state.leg_starter_player_id = 1 <=> NonEndingCheckouts % 2 = 0
    /\ Len(undo_stack) = Len(state.history)
    /\ \A k \in 1..Len(state.history) :
          state.history[k].player_id = undo_stack[k].active_player_id
    /\ state.winner_player_id = None =>
          (state.active_player_id = state.leg_starter_player_id
              <=> VisitsSinceCheckout % 2 = 0)

\* A leg has been won, player 2 started the next leg and has thrown one
\* visit of it: player 1 is to throw.
C33_Witness ==
    /\ state.winner_player_id = None
    /\ NonEndingCheckouts = 1
    /\ VisitsSinceCheckout = 1
    /\ state.leg_starter_player_id = 2
    /\ state.active_player_id = 1

\* C34: while the match is in progress both players have
\* 0 <= legs_won < legs_to_win_set, 0 <= sets_won < sets_to_win_match and
\* 1 <= remaining <= starting_score, set_number is 1 + the sets won by both
\* players and leg_number_in_set is 1 + the legs won by both players.
C34_TalliesInProgress ==
    state.winner_player_id = None =>
        /\ \A i \in {1, 2} :
              /\ state.players[i].legs_won >= 0
              /\ state.players[i].legs_won < state.config.legs_to_win_set
              /\ state.players[i].sets_won >= 0
              /\ state.players[i].sets_won < state.config.sets_to_win_match
              /\ state.players[i].remaining >= 1
              /\ state.players[i].remaining <= state.config.starting_score
        /\ state.set_number
              = 1 + state.players[1].sets_won + state.players[2].sets_won
        /\ state.leg_number_in_set
              = 1 + state.players[1].legs_won + state.players[2].legs_won

\* Each player has won one set of a match in progress: the third set is on.
C34_Witness ==
    /\ lastOp = "submit" /\ lastResult = "ok"
    /\ state.winner_player_id = None
    /\ state.players[1].sets_won = 1 /\ state.players[2].sets_won = 1
    /\ state.set_number = 3
    /\ state.leg_number_in_set = 1

\* The most legs a match of the configuration can take.
MaxLegsOfMatch ==
    (2 * state.config.legs_to_win_set - 1)
    * (2 * state.config.sets_to_win_match - 1)

\* C35: the history holds at most
\* (2 * legs_to_win_set - 1) * (2 * sets_to_win_match - 1) checkout visits,
\* and the match is over once it holds that many.
C35_LegsBounded ==
    /\ Cardinality(CheckoutPlaces) <= MaxLegsOfMatch
    /\ Cardinality(CheckoutPlaces) = MaxLegsOfMatch =>
          state.winner_player_id # None

\* A match of sets to 2 of legs to 2 went the whole distance: 9 legs, and the
\* ninth checkout ended it.
C35_Witness ==
    /\ state.config.legs_to_win_set = 2
    /\ state.config.sets_to_win_match = 2
    /\ Cardinality(CheckoutPlaces) = 9
    /\ state.winner_player_id # None
    /\ state.last_visit.checkout

\* The visits of one valid dart.
OneDartVisits == {<<d>> : d \in AllValidDarts}

\* The visits of one dart that take the thrower of st forward: a checkout, or
\* points scored without a bust.
ProgressVisits(st) ==
    {v \in OneDartVisits :
        /\ RejectReason(st, v, None) = "ok"
        /\ \/ MakeVisit(st, v).checkout
           \/ ~MakeVisit(st, v).bust /\ MakeVisit(st, v).total > 0}

\* The visit the thrower of st plays: a checkout when one dart gives it, else
\* a visit that scores.
BestVisit(st) ==
    IF \E v \in ProgressVisits(st) : MakeVisit(st, v).checkout
    THEN CHOOSE v \in ProgressVisits(st) : MakeVisit(st, v).checkout
    ELSE CHOOSE v \in ProgressVisits(st) : TRUE

\* No match takes more accepted scoring visits than this.
FinishFuel(c) ==
    (2 * c.legs_to_win_set - 1) * (2 * c.sets_to_win_match - 1)
    * 2 * c.starting_score

RECURSIVE PlayToEnd(_, _, _)
\* TRUE iff the accepted visits each thrower plays from st lead to a state
\* with a match winner.  A thrower who has no visit that scores passes with
\* a visit of no darts; idle counts the passes in a row, and after both
\* players have passed no visit of either changes a remaining again.
PlayToEnd(st, idle, fuel) ==
    IF is_over(st) THEN TRUE
    ELSE IF fuel = 0 THEN FALSE
    ELSE IF ProgressVisits(st) # {}
    THEN PlayToEnd(ApplyVisit(st, MakeVisit(st, BestVisit(st))), 0, fuel - 1)
    ELSE IF idle >= 1 \/ RejectReason(st, <<>>, None) # "ok" THEN FALSE
    ELSE PlayToEnd(ApplyVisit(st, MakeVisit(st, <<>>)), idle + 1, fuel)

\* C36: for every configuration MatchConfig accepts, from every reachable
\* state with the match in progress some sequence of accepted visits leads
\* to a state with a match winner.
C36_CanAlwaysFinish ==
    (MatchConfigValid(state.config) /\ ~is_over(state)) =>
        PlayToEnd(state, 0, FinishFuel(state.config))

\* C37: a route suggest_checkouts returned for the remaining of the thrower
\* and the double_out of the match, submitted as the thrower's visit, is
\* accepted and is a checkout: it is not rejected (as DARTS_AFTER_CHECKOUT,
\* as TOO_MANY_DARTS or otherwise) and it is no bust.
C37_SuggestedRouteChecksOut ==
    lastOp = "submit" =>
        /\ lastResult = "ok"
        /\ state.last_visit.darts \in ReturnedRoutes
        /\ state.last_visit.remaining_before = sc_args.remaining
        /\ state.last_visit.checkout
        /\ ~state.last_visit.bust
        /\ state.last_visit.remaining_after = 0

\* The suggested finish of 170 under double-out, T20 T20 DBULL, was submitted
\* and won the leg.
C37_Witness ==
    /\ lastOp = "submit" /\ lastResult = "ok"
    /\ sc_args.remaining = 170 /\ sc_args.double_out
    /\ state.last_visit.darts = <<Dart(20, 3), Dart(20, 3), Dart(25, 2)>>
    /\ state.last_visit.checkout
    /\ state.winner_player_id = 1

\* score_darts has returned.
DartsScored == sd_result # NoDartsScored

\* C38: the darts score_dart_pixel returns are darts of the game: value in
\* {0, 1..20, 25}, multiplier in 0..3, multiplier = 0 iff value = 0, no
\* triple bull, and score = value x multiplier; score_darts over at most 3
\* pixels returns these darts, one for each pixel, and a total that is the
\* sum of their scores and lies in 0..180.
C38_MapperGivesGameDarts ==
    /\ Scored =>
          /\ DartValid(Dart(dart_score.value, dart_score.multiplier))
          /\ dart_score.multiplier = 0 <=> dart_score.value = 0
          /\ dart_score.score = dart_score.value * dart_score.multiplier
    /\ (DartsScored /\ Len(sd_points) <= 3) =>
          LET scored == sd_result[1]
              total == sd_result[2] IN
          /\ Len(scored) = Len(sd_points)
          /\ \A i \in 1..Len(scored) :
                /\ scored[i] = score_dart_pixel(sd_points[i][1],
                                                sd_points[i][2], calib)
                /\ scored[i].value \in {0} \cup (1..20) \cup {25}
                /\ scored[i].multiplier \in 0..3
                /\ scored[i].multiplier = 0 <=> scored[i].value = 0
                /\ ~(scored[i].value = 25 /\ scored[i].multiplier = 3)
                /\ DartValid(Dart(scored[i].value, scored[i].multiplier))
                /\ scored[i].score = scored[i].value * scored[i].multiplier
          /\ total = SumScores([i \in 1..Len(scored) |->
                                   Dart(scored[i].value, scored[i].multiplier)],
                               Len(scored))
          /\ total >= 0 /\ total <= 180

\* Three pixels in the triple 20 were scored: 180.
C38_Witness ==
    /\ DartsScored
    /\ Len(sd_points) = 3
    /\ \A i \in 1..3 : sd_result[1][i].value = 20 /\ sd_result[1][i].multiplier = 3
    /\ sd_result[2] = 180

\* The place of the last checkout in the history, 0 when there is none.
LastCheckoutPlace == Len(state.history) - VisitsSinceCheckout

RECURSIVE LegPoints(_, _)
\* The sum of the totals of the non-bust visits of player p among the visits
\* at the places after the last checkout up to place k.
LegPoints(p, k) ==
    IF k <= LastCheckoutPlace THEN 0
    ELSE LegPoints(p, k - 1)
         + (IF state.history[k].player_id = p /\ ~state.history[k].bust
            THEN state.history[k].total ELSE 0)

\* C39: while the match is in progress the remaining of each player is
\* starting_score minus the sum of the totals of that player's non-bust
\* visits recorded since the last checkout.
C39_RemainingFromLegVisits ==
    state.winner_player_id = None =>
        \A p \in {1, 2} :
            get_player(state.players, p).remaining
                = state.config.starting_score - LegPoints(p, Len(state.history))

\* A leg has been won and a player has scored in the leg that followed.
C39_Witness ==
    /\ state.winner_player_id = None
    /\ LastCheckoutPlace >= 1
    /\ \E p \in {1, 2} :
          /\ LegPoints(p, Len(state.history)) > 0
          /\ get_player(state.players, p).remaining < state.config.starting_score

\* C40: under every interleaving of the camera requests a latest frame is
\* stored only for a camera that exists: set_latest_frame on a camera that
\* is unknown or deleted raises and leaves the frames as they are, and
\* delete_camera removes the camera and its frame together.
C40_FramesOnlyForCameras ==
    /\ DOMAIN latest_frames \subseteq DOMAIN cameras
    /\ \A id \in CameraIds \ DOMAIN cameras, data \in FrameInputs :
          LET r == set_latest_frame(cameras, latest_frames, id,
                                    "image/jpeg", data) IN
          r.raised = "KeyError" /\ r.latest_frames = latest_frames
    /\ \A id \in CameraIds :
          LET r == delete_camera(cameras, latest_frames, id) IN
          /\ id \notin DOMAIN r.cameras
          /\ id \notin DOMAIN r.latest_frames
          /\ r.existed <=> id \in DOMAIN cameras
    /\ response.op = "delete_camera" =>
          /\ response.camera_id \notin DOMAIN cameras
          /\ response.camera_id \notin DOMAIN latest_frames

\* A camera that held a frame has just been deleted, camera and frame, while
\* an upload to it is between its camera lookup and set_latest_frame.
C40_Witness ==
    /\ response = Response("delete_camera", 1, 200, "deleted")
    /\ last_upload[1] # ""
    /\ 1 \notin DOMAIN cameras
    /\ 1 \notin DOMAIN latest_frames
    /\ \E t \in CameraThreads :
          requests[t].pc = "upload" /\ requests[t].camera_id = 1

====
